---- MODULE Spec2Model ----
(***************************************************************************)
(* Negotiation session engine of backend/main.py: the /negotiate           *)
(* websocket handler (round loop, early exits, judge step), the streaming  *)
(* turn driver with its structured-retry ladder, the message extractor and *)
(* the outcome judge.                                                      *)
(*                                                                         *)
(* Text is modelled as a sequence of tokens: a token is either a piece of   *)
(* markup the extractor's regular expressions look for (a tag, a label) or *)
(* one character class (a word, a space, a newline).                       *)
(***************************************************************************)
EXTENDS Integers, Sequences, FiniteSets, TLC

(***************************************************************************)
(* Bounds of the model.                                                    *)
(***************************************************************************)
\* largest value of max_rounds explored (the code allows 1..50)
MaxRoundsBound == 2
\* largest number of "chunk" events a stream delivers in the runs that study
\* one round's text (a stream of the other runs delivers at most one)
MaxChunks == 2
\* largest number of inbound messages rejected while awaiting human input
\* that the safety specifications follow (the liveness one has no such cap)
MaxRejects == 1

(***************************************************************************)
(* Tokens.                                                                 *)
(***************************************************************************)
WS == {" ", "\n"}
\* labels that end a MESSAGE: block (_extract_message_block)
MessageStopLabels ==
    {"INTERNAL_THOUGHT:", "UPDATED_STATS:", "UPDATED_STATE:", "EMOTIONAL_STATE:",
     "STRATEGIC_INTENT:", "TECHNIQUES_USED:", "CONFIDENCE_SCORE:"}
\* label prefixes whose lines _extract_unlabeled_message drops
LabelPrefixes == MessageStopLabels \cup {"MESSAGE:"}

OpenTag(tag) == "<" \o tag \o ">"
CloseTag(tag) == "</" \o tag \o ">"

\* the canned messages of the turn driver and the extractor's placeholder
CannedStudent == <<"I am still evaluating this. Please share your top concern so I can respond precisely.">>
CannedCounsellor == <<"Could you share your top concern so I can address it directly?">>
\* mutant: the placeholder is the empty string
PlaceholderEmpty == <<>>

Placeholder == <<"...">>

(***************************************************************************)
(* str.strip() and "not s.strip()".                                        *)
(***************************************************************************)
RECURSIVE LStrip(_)
LStrip(s) ==
    IF s = <<>> THEN s
    ELSE IF Head(s) \in WS THEN LStrip(Tail(s)) ELSE s

RECURSIVE RStrip(_)
RStrip(s) ==
    IF s = <<>> THEN s
    ELSE IF s[Len(s)] \in WS THEN RStrip(SubSeq(s, 1, Len(s) - 1)) ELSE s

Strip(s) == RStrip(LStrip(s))

IsBlank(s) == Strip(s) = <<>>

\* index of the first token of s at or after from that lies in T, 0 if none
FirstIndex(s, T, from) ==
    LET I == {i \in from..Len(s) : s[i] \in T}
    IN  IF I = {} THEN 0 ELSE CHOOSE i \in I : \A j \in I : i <= j

\* index of the last token of s in lo..hi that lies in T, 0 if none
LastIndex(s, T, lo, hi) ==
    LET I == {i \in lo..hi : s[i] \in T}
    IN  IF I = {} THEN 0 ELSE CHOOSE i \in I : \A j \in I : j <= i

(***************************************************************************)
(* _extract_tag_block: the stripped text between the first opening tag and *)
(* the first closing tag after it; without a closing tag, the stripped     *)
(* text from the opening tag to the end.                                   *)
(***************************************************************************)
\* mutant: without a closing tag there is no block
ExtractTagBlockClosedOnly(raw, tag) ==
    LET o == FirstIndex(raw, {OpenTag(tag)}, 1)
        c == IF o = 0 THEN 0 ELSE FirstIndex(raw, {CloseTag(tag)}, o + 1)
    IN  IF c = 0 THEN <<>> ELSE Strip(SubSeq(raw, o + 1, c - 1))

ExtractTagBlock(raw, tag) ==
    LET o == FirstIndex(raw, {OpenTag(tag)}, 1)
    IN  IF o = 0 THEN <<>>
        ELSE LET c == FirstIndex(raw, {CloseTag(tag)}, o + 1)
             IN  IF c # 0
                 THEN Strip(SubSeq(raw, o + 1, c - 1))
                 ELSE Strip(SubSeq(raw, o + 1, Len(raw)))

(***************************************************************************)
(* _extract_message_block: the text after the first MESSAGE: up to the     *)
(* first control label (the lazy group stops at a label that follows       *)
(* whitespace, the re.sub then cuts at any label left in the group).       *)
(***************************************************************************)
ExtractMessageBlock(raw) ==
    LET m == FirstIndex(raw, {"MESSAGE:"}, 1)
    IN  IF m = 0 THEN <<>>
        ELSE LET stop == FirstIndex(raw, MessageStopLabels, m + 1)
                 last == IF stop = 0 THEN Len(raw) ELSE stop - 1
             IN  Strip(SubSeq(raw, m + 1, last))

(***************************************************************************)
(* _extract_labeled_block: the stripped text after the first LABEL: up to  *)
(* the first newline that is followed by a stop label, else to the end.    *)
(* The whitespace right after the label is consumed before the group       *)
(* starts, so a newline in it does not end the block.                      *)
(***************************************************************************)
ExtractLabeledBlock(raw, label, stops) ==
    LET m == FirstIndex(raw, {label}, 1)
    IN  IF m = 0 THEN <<>>
        ELSE LET rest == SubSeq(raw, m + 1, Len(raw))
                 body == LStrip(rest)
                 E == {i \in 1..(Len(body) - 1) :
                          body[i] = "\n" /\ body[i + 1] \in stops}
                 last == IF E = {} THEN Len(body)
                         ELSE (CHOOSE i \in E : \A j \in E : i <= j) - 1
             IN  Strip(SubSeq(body, 1, last))

(***************************************************************************)
(* _extract_unlabeled_message: split into lines, strip them, drop the      *)
(* empty ones and those that start with a label, join with one space.      *)
(***************************************************************************)
RECURSIVE SplitLines(_)
SplitLines(s) ==
    LET n == FirstIndex(s, {"\n"}, 1)
    IN  IF n = 0 THEN IF s = <<>> THEN <<>> ELSE <<s>>
        ELSE <<SubSeq(s, 1, n - 1)>> \o SplitLines(SubSeq(s, n + 1, Len(s)))

RECURSIVE JoinLines(_)
JoinLines(ls) ==
    IF ls = <<>> THEN <<>>
    ELSE IF Len(ls) = 1 THEN Head(ls)
    ELSE Head(ls) \o <<" ">> \o JoinLines(Tail(ls))

KeepLine(l) == l # <<>> /\ Head(l) \notin LabelPrefixes

ExtractUnlabeledMessage(raw) ==
    LET stripped == [i \in 1..Len(SplitLines(raw)) |-> Strip(SplitLines(raw)[i])]
        cleaned == SelectSeq(stripped, KeepLine)
    IN  Strip(JoinLines(cleaned))

(***************************************************************************)
(* The re.sub calls of _extract_response_fields that blank out the closed  *)
(* blocks of the other fields (each becomes one space), and the            *)
(* str.replace of the bare message tags.  The pattern of the confidence    *)
(* block accepts either spelling of the tag on either side.                *)
(***************************************************************************)
BlockOpens(tag) ==
    IF tag = "confidence" THEN {"<confidence>", "<confidence_score>"} ELSE {OpenTag(tag)}
BlockCloses(tag) ==
    IF tag = "confidence" THEN {"</confidence>", "</confidence_score>"} ELSE {CloseTag(tag)}

RECURSIVE RemoveBlocks(_, _)
RemoveBlocks(s, tag) ==
    LET o == FirstIndex(s, BlockOpens(tag), 1)
        c == IF o = 0 THEN 0 ELSE FirstIndex(s, BlockCloses(tag), o + 1)
    IN  IF c = 0 THEN s
        ELSE SubSeq(s, 1, o - 1) \o <<" ">> \o RemoveBlocks(SubSeq(s, c + 1, Len(s)), tag)

ReplaceMessageTags(s) ==
    [i \in 1..Len(s) |-> IF s[i] \in {"<message>", "</message>"} THEN " " ELSE s[i]]

CleanText(raw) ==
    ReplaceMessageTags(
        RemoveBlocks(RemoveBlocks(RemoveBlocks(RemoveBlocks(RemoveBlocks(
            RemoveBlocks(RemoveBlocks(raw, "thought"), "stats"), "intent"),
            "emotional_state"), "emotion"), "techniques"), "confidence"))

(***************************************************************************)
(* The re.sub that removes whitespace before a newline: in a run of        *)
(* whitespace, everything up to its last newline collapses into one        *)
(* newline when that newline is not the first character of the run.        *)
(***************************************************************************)
RECURSIVE CollapseBeforeNewline(_)
CollapseBeforeNewline(s) ==
    IF s = <<>> THEN s
    ELSE IF Head(s) \notin WS THEN <<Head(s)>> \o CollapseBeforeNewline(Tail(s))
    ELSE LET e == FirstIndex(s, {t \in {s[i] : i \in 1..Len(s)} : t \notin WS}, 1)
             j == IF e = 0 THEN Len(s) ELSE e - 1
             k == LastIndex(s, {"\n"}, 1, j)
             run == IF k > 1 THEN <<"\n">> \o SubSeq(s, k + 1, j) ELSE SubSeq(s, 1, j)
         IN  run \o CollapseBeforeNewline(SubSeq(s, j + 1, Len(s)))

(***************************************************************************)
(* Numbers.  A number that reaches the program as text or as a JSON value  *)
(* is held in tenths, so that int(float(x)) is a truncation toward zero    *)
(* the model performs itself.                                              *)
(***************************************************************************)
Trunc10(x) == IF x >= 0 THEN x \div 10 ELSE -((-x) \div 10)

Min(a, b) == IF a <= b THEN a ELSE b
Max(a, b) == IF a >= b THEN a ELSE b

(***************************************************************************)
(* Values of a parsed JSON object, as _clamp_score sees them: a number     *)
(* (in tenths), or anything int(float(value)) raises on (null, a word, a   *)
(* list, a missing field).                                                 *)
(***************************************************************************)
NumVal(t) == [kind |-> "num", tenths |-> t]
Unparsable == [kind |-> "other", tenths |-> 0]
\* a JSON string and a JSON list of strings
StrVal(t) == [kind |-> "str", text |-> t]
ListVal(l) == [kind |-> "list", items |-> l]

\* mutant: the score is not clamped from above
ClampScoreNoCeiling(value, fallback) ==
    Max(0, IF value.kind = "num" THEN Trunc10(value.tenths) ELSE fallback)

\* _clamp_score
ClampScore(value, fallback) ==
    LET parsed == IF value.kind = "num" THEN Trunc10(value.tenths) ELSE fallback
    IN  Max(0, Min(100, parsed))

\* a dict is a function from the keys it holds; dict.get(key, default)
EmptyDict == [k \in {} |-> Unparsable]
Get(d, key, default) == IF key \in DOMAIN d THEN d[key] ELSE default

(***************************************************************************)
(* _merge_student_inner_state, for the two numeric fields (sentiment and   *)
(* unresolved_concerns are free text the model leaves out).  current is a  *)
(* record of two integers, updates a dict.                                 *)
(***************************************************************************)
MergeStudentInnerState(current, updates) ==
    LET merged == [skepticism_level |-> ClampScore(NumVal(10 * current.skepticism_level), 50),
                   trust_score |-> ClampScore(NumVal(10 * current.trust_score), 50)]
    IN  IF DOMAIN updates = {} THEN merged
        ELSE [skepticism_level |->
                 ClampScore(Get(updates, "skepticism_level",
                                Get(updates, "resistance",
                                    NumVal(10 * merged.skepticism_level))),
                            merged.skepticism_level),
              trust_score |->
                 ClampScore(Get(updates, "trust_score",
                                Get(updates, "trust", NumVal(10 * merged.trust_score))),
                            merged.trust_score)]

\* str.strip() and str.lower() of a text that is one token
StripText(t) == IF t \in WS THEN "" ELSE t
LowerText(t) == IF t = "Happy" THEN "happy" ELSE t

(***************************************************************************)
(* _merge_student_inner_state, for the two text fields: the sentiment is   *)
(* replaced by a truthy update, stripped and lower-cased (lines 928-929),  *)
(* the concerns by an update that is a list, its items stripped and the    *)
(* empty ones dropped (930-931).  The JSON texts of the model give the     *)
(* sentiment as a string only.                                             *)
(***************************************************************************)
MergeSentiment(current, updates) ==
    IF DOMAIN updates = {} THEN current
    ELSE IF /\ "sentiment" \in DOMAIN updates
            /\ updates["sentiment"].kind = "str"
            /\ updates["sentiment"].text # ""
         THEN LowerText(StripText(updates["sentiment"].text))
    ELSE current

RECURSIVE StripItems(_)
StripItems(l) ==
    IF l = <<>> THEN <<>>
    ELSE IF StripText(l[1]) = "" THEN StripItems(Tail(l))
    ELSE <<StripText(l[1])>> \o StripItems(Tail(l))

MergeConcerns(current, updates) ==
    IF DOMAIN updates = {} THEN current
    ELSE IF /\ "unresolved_concerns" \in DOMAIN updates
            /\ updates["unresolved_concerns"].kind = "list"
         THEN StripItems(updates["unresolved_concerns"].items)
    ELSE current

\* the merged inner state as the dict the turn stores and the loop merges
\* again (lines 2370-2372, 2383, 2913)
AsDict(inner) ==
    [k \in {"skepticism_level", "trust_score"} |-> NumVal(10 * inner[k])]
MergedDict(inner, merged_sentiment, merged_concerns) ==
    [k \in {"sentiment", "skepticism_level", "trust_score", "unresolved_concerns"} |->
        IF k = "sentiment" THEN StrVal(merged_sentiment)
        ELSE IF k = "unresolved_concerns" THEN ListVal(merged_concerns)
        ELSE AsDict(inner)[k]]

(***************************************************************************)
(* JSON texts.  A JSON text is one token; json.loads is the table below.   *)
(* Every token that holds a brace holds a whole {...} text, so that the    *)
(* span from the first "{" to the last "}" of a block is one token or is   *)
(* not JSON.                                                               *)
(***************************************************************************)
JsonClamp == "{\"resistance\": 130, \"trust\": -15}"
JsonFraction == "{\"skepticism_level\": 42.9, \"trust_score\": \"high\"}"
JsonNull == "{\"skepticism_level\": null, \"resistance\": 10}"
JsonBad == "{bad}"
JsonMood == "{\"sentiment\": \"Happy\", \"unresolved_concerns\": [\"a\", \" \"]}"
JsonBlankMood == "{\"sentiment\": \" \"}"
BraceTokens == {"{}", JsonClamp, JsonFraction, JsonNull, JsonBad, JsonMood, JsonBlankMood}

JsonLoads(tok) ==
    CASE tok = JsonClamp ->
            [k \in {"resistance", "trust"} |->
                IF k = "resistance" THEN NumVal(1300) ELSE NumVal(-150)]
      [] tok = JsonFraction ->
            [k \in {"skepticism_level", "trust_score"} |->
                IF k = "skepticism_level" THEN NumVal(429) ELSE Unparsable]
      [] tok = JsonNull ->
            [k \in {"skepticism_level", "resistance"} |->
                IF k = "skepticism_level" THEN Unparsable ELSE NumVal(100)]
      [] tok = JsonMood ->
            [k \in {"sentiment", "unresolved_concerns"} |->
                IF k = "sentiment" THEN StrVal("Happy") ELSE ListVal(<<"a", " ">>)]
      [] tok = JsonBlankMood ->
            [k \in {"sentiment"} |-> StrVal(" ")]
      [] OTHER -> EmptyDict

\* mutant: the parse of a block that is not JSON yields a delta all the same
ExtractFirstJsonObjectLax(raw) ==
    IF \E i \in 1..Len(raw) : raw[i] \in BraceTokens
    THEN JsonLoads(JsonClamp) ELSE EmptyDict

\* _extract_first_json_object
ExtractFirstJsonObject(raw) ==
    LET start == FirstIndex(raw, BraceTokens, 1)
        end == LastIndex(raw, BraceTokens, 1, Len(raw))
    IN  IF start = 0 \/ end # start THEN EmptyDict ELSE JsonLoads(raw[start])

(***************************************************************************)
(* Tokens the field grammar tells apart.  Number texts are one token each  *)
(* (float() is the table NumberTenths) and two of them are never adjacent  *)
(* in a text; a list text is one token.                                    *)
(***************************************************************************)
UnsignedNumberTokens == {"85", "130", "42.9"}
NumberTokens == UnsignedNumberTokens \cup {"-15"}
NumberTenths(tok) ==
    CASE tok = "85" -> 850
      [] tok = "130" -> 1300
      [] tok = "42.9" -> 429
      [] tok = "-15" -> -150

ListJson == "[\"a\", \"b\"]"
ListBare == "[a, b]"
ListTokens == {ListJson, ListBare}

FieldTags == {"message", "thought", "intent", "stats", "emotional_state", "emotion",
              "techniques", "confidence", "confidence_score"}
TagTokens == {OpenTag(t) : t \in FieldTags} \cup {CloseTag(t) : t \in FieldTags}

\* tokens made only of letters, spaces, hyphens and underscores
LetterTokens == {"w", "calm", "Happy", "frustrated", "excited", "skeptical",
                 "time", "not-a-json", " "}

\* str.lower() of a letter token; the letters a label starts with, lowered
Lower(tok) == IF tok = "Happy" THEN "happy" ELSE tok
LabelWord(label) ==
    CASE label = "INTERNAL_THOUGHT:" -> "internal_thought"
      [] label = "UPDATED_STATS:" -> "updated_stats"
      [] label = "UPDATED_STATE:" -> "updated_state"
      [] label = "MESSAGE:" -> "message"
      [] label = "EMOTIONAL_STATE:" -> "emotional_state"
      [] label = "STRATEGIC_INTENT:" -> "strategic_intent"
      [] label = "TECHNIQUES_USED:" -> "techniques_used"
      [] label = "CONFIDENCE_SCORE:" -> "confidence_score"

\* index of the first token of s at or after from that is not whitespace
SkipWS(s, from) ==
    LET I == {i \in from..Len(s) : s[i] \notin WS}
    IN  IF I = {} THEN Len(s) + 1 ELSE CHOOSE i \in I : \A j \in I : i <= j

(***************************************************************************)
(* Lines 1032-1035, the search for EMOTIONAL_STATE: followed by letters.   *)
(* At an occurrence of the label the whitespace is skipped and the run of  *)
(* letter tokens that follows is the value, with the letters of a label    *)
(* or the sign of a number that ends the run; without such a run the group can still match spaces  *)
(* the whitespace gives back, and the value is then empty; otherwise the   *)
(* search goes on at the next occurrence.                                  *)
(***************************************************************************)
RECURSIVE LetterRun(_, _)
LetterRun(s, i) ==
    IF i > Len(s) THEN <<>>
    ELSE IF s[i] \in LetterTokens THEN <<Lower(s[i])>> \o LetterRun(s, i + 1)
    ELSE IF s[i] \in LabelPrefixes THEN <<LabelWord(s[i])>>
    ELSE IF s[i] = "-15" THEN <<"-">>
    ELSE <<>>

RECURSIVE EmotionFromLabel(_, _)
EmotionFromLabel(raw, from) ==
    LET m == FirstIndex(raw, {"EMOTIONAL_STATE:"}, from)
    IN  IF m = 0 THEN [found |-> FALSE, value |-> <<>>]
        ELSE LET j == SkipWS(raw, m + 1)
                 run == LetterRun(raw, j)
             IN  IF run # <<>> THEN [found |-> TRUE, value |-> Strip(run)]
                 ELSE IF \E i \in (m + 1)..(j - 1) : raw[i] = " "
                 THEN [found |-> TRUE, value |-> <<>>]
                 ELSE EmotionFromLabel(raw, m + 1)

\* lines 1025-1030, the search for CONFIDENCE_SCORE: followed by digits
RECURSIVE ConfidenceFromLabel(_, _)
ConfidenceFromLabel(raw, from) ==
    LET m == FirstIndex(raw, {"CONFIDENCE_SCORE:"}, from)
    IN  IF m = 0 THEN [found |-> FALSE, value |-> 0]
        ELSE LET j == SkipWS(raw, m + 1)
             IN  IF j <= Len(raw) /\ raw[j] \in UnsignedNumberTokens
                 THEN [found |-> TRUE, value |-> Trunc10(NumberTenths(raw[j]))]
                 ELSE ConfidenceFromLabel(raw, m + 1)

\* float(text) of a stripped block, as the value _clamp_score receives
FloatOf(block) ==
    IF Len(block) = 1 /\ block[1] \in NumberTokens
    THEN NumVal(NumberTenths(block[1])) ELSE Unparsable

(***************************************************************************)
(* Lines 1005-1019, the techniques: the tag block read as a JSON value (a  *)
(* list gives its items, another JSON value is split at its commas, text   *)
(* that is not JSON gives nothing), else TECHNIQUES_USED: [ ... ].         *)
(***************************************************************************)
CommaSplit(tok) ==
    CASE tok = JsonClamp -> <<"{\"resistance\": 130", "\"trust\": -15}">>
      [] tok = JsonFraction -> <<"{\"skepticism_level\": 42.9", "\"trust_score\": \"high\"}">>
      [] tok = JsonNull -> <<"{\"skepticism_level\": null", "\"resistance\": 10}">>
      [] tok = JsonMood -> <<"{\"sentiment\": \"Happy\"", "\"unresolved_concerns\": [\"a\"",
                             "\" \"]}">>
      [] OTHER -> <<tok>>

TechniquesFromTag(block) ==
    IF Len(block) # 1 THEN <<>>
    ELSE IF block[1] = ListJson THEN <<"a", "b">>
    ELSE IF block[1] \in NumberTokens \cup (BraceTokens \ {JsonBad}) THEN CommaSplit(block[1])
    ELSE <<>>

RECURSIVE TechniquesFromLabel(_, _)
TechniquesFromLabel(raw, from) ==
    LET m == FirstIndex(raw, {"TECHNIQUES_USED:"}, from)
    IN  IF m = 0 THEN <<>>
        ELSE LET j == SkipWS(raw, m + 1)
             IN  IF j <= Len(raw) /\ raw[j] \in ListTokens THEN <<"a", "b">>
                 ELSE TechniquesFromLabel(raw, m + 1)

(***************************************************************************)
(* _extract_response_fields: message (tag block, else MESSAGE: block, else *)
(* the unlabeled lines of the cleaned text, else the placeholder),         *)
(* internal_thought, intent, emotional_state, confidence_score, techniques *)
(* and updated_stats.                                                      *)
(***************************************************************************)
OrElse(a, b) == IF a # <<>> THEN a ELSE b

ThoughtStopLabels ==
    {"UPDATED_STATS:", "UPDATED_STATE:", "MESSAGE:", "STRATEGIC_INTENT:", "EMOTIONAL_STATE:"}
IntentStopLabels == {"MESSAGE:", "EMOTIONAL_STATE:", "CONFIDENCE_SCORE:"}
StatsStopLabels ==
    {"MESSAGE:", "STRATEGIC_INTENT:", "EMOTIONAL_STATE:", "INTERNAL_THOUGHT:", "UPDATED_STATE:"}
StateStopLabels ==
    {"MESSAGE:", "STRATEGIC_INTENT:", "EMOTIONAL_STATE:", "INTERNAL_THOUGHT:", "UPDATED_STATS:"}

\* "if not message: message = '...'"
OrPlaceholder(message) == IF message = <<>> THEN Placeholder ELSE message

\* lines 990-1002, the text of the state-delta block
UpdatedStatsRaw(text) ==
    OrElse(ExtractTagBlock(text, "stats"),
           OrElse(ExtractLabeledBlock(text, "UPDATED_STATS:", StatsStopLabels),
                  ExtractLabeledBlock(text, "UPDATED_STATE:", StateStopLabels)))

\* lines 1021-1030 and 1055
ConfidenceOf(text) ==
    LET confidence_raw == OrElse(ExtractTagBlock(text, "confidence"),
                                 ExtractTagBlock(text, "confidence_score"))
        labeled == ConfidenceFromLabel(text, 1)
        confidence == IF confidence_raw # <<>> THEN ClampScore(FloatOf(confidence_raw), 60)
                      ELSE IF labeled.found THEN labeled.value
                      ELSE 60
    IN  Max(0, Min(100, confidence))

\* lines 983-987 and 1032-1035
EmotionOf(text) ==
    LET tagged == OrElse(ExtractTagBlock(text, "emotional_state"),
                         OrElse(ExtractTagBlock(text, "emotion"), <<"calm">>))
        labeled == EmotionFromLabel(text, 1)
    IN  IF tagged = <<"calm">> /\ labeled.found THEN labeled.value ELSE tagged

\* lines 1005-1019
TechniquesOf(text) ==
    LET techniques_raw == ExtractTagBlock(text, "techniques")
        tagged == IF techniques_raw # <<>> THEN TechniquesFromTag(techniques_raw) ELSE <<>>
    IN  IF tagged # <<>> THEN tagged ELSE TechniquesFromLabel(text, 1)

ExtractResponseFields(text) ==
    LET tagged == OrElse(ExtractTagBlock(text, "message"), ExtractMessageBlock(text))
        message == OrPlaceholder(OrElse(tagged, ExtractUnlabeledMessage(CleanText(text))))
        thought == OrElse(ExtractTagBlock(text, "thought"),
                          ExtractLabeledBlock(text, "INTERNAL_THOUGHT:", ThoughtStopLabels))
        intent == OrElse(ExtractTagBlock(text, "intent"),
                         ExtractLabeledBlock(text, "STRATEGIC_INTENT:", IntentStopLabels))
    IN  [message |-> Strip(CollapseBeforeNewline(message)),
         techniques |-> TechniquesOf(text),
         intent |-> intent,
         confidence_score |-> ConfidenceOf(text),
         emotional_state |-> EmotionOf(text),
         internal_thought |-> thought,
         updated_stats |-> ExtractFirstJsonObject(UpdatedStatsRaw(text))]

\* _extract_counsellor_message
ExtractCounsellorMessage(text) ==
    LET raw == Strip(text)
        tagged == ExtractTagBlock(raw, "message")
    IN  IF raw = <<>> THEN Placeholder
        ELSE IF tagged # <<>>
             THEN OrElse(Strip(CollapseBeforeNewline(tagged)), Placeholder)
             ELSE OrElse(Strip(CollapseBeforeNewline(raw)), Placeholder)

(***************************************************************************)
(* _stream_agent_response after the stream has ended (lines 2252-2388):    *)
(* the structured retry when the buffer is blank, the canned message when  *)
(* the retry message is blank, the text rebuilt from the retry payload,    *)
(* the extraction and the final message guard.                             *)
(*   full_text : the buffer left by the stream (emptied by a timeout)      *)
(*   payload   : what _retry_with_structured_json returns when it is       *)
(*               called, a record with message and internal_thought        *)
(***************************************************************************)
RetryMessage(agent, payload) ==
    IF Strip(payload.message) # <<>> THEN Strip(payload.message)
    ELSE IF agent = "student" THEN CannedStudent ELSE CannedCounsellor

RetryFullText(agent, payload) ==
    IF agent = "student"
    THEN <<"<thought>">> \o OrElse(Strip(payload.internal_thought), <<"No internal thought captured">>)
         \o <<"</thought>", "\n", "<stats>", "{}", "</stats>", "\n", "<message>">>
         \o RetryMessage(agent, payload)
         \o <<"</message>", "\n", "<emotional_state>", "calm", "</emotional_state>", "\n",
              "<intent>", "No Intent detected", "</intent>">>
    ELSE RetryMessage(agent, payload)

\* "if not fields.get('message', '').strip(): fields['message'] = '...'"
FinalMessage(message) == IF IsBlank(message) THEN Placeholder ELSE message

TurnResult(agent, full_text, payload) ==
    LET retried == IsBlank(full_text)
        retry_text == RetryFullText(agent, payload)
        fell_back == retried /\ IsBlank(retry_text)
        text == IF ~retried THEN full_text
                ELSE IF fell_back THEN <<"<message>", "...", "</message>">>
                ELSE retry_text
        fields == ExtractResponseFields(text)
        message == IF agent = "counsellor" THEN ExtractCounsellorMessage(text)
                   ELSE fields.message
    IN  [agent |-> agent,
         raw |-> text,
         fields |-> fields,
         content |-> FinalMessage(message),
         internal_thought |-> fields.internal_thought,
         generation_mode |-> IF ~retried THEN "stream"
                             ELSE IF fell_back THEN "fallback" ELSE "structured_retry",
         retry_calls |-> IF retried THEN 1 ELSE 0,
         retry_chunk |-> retried /\ ~IsBlank(retry_text)]

(***************************************************************************)
(* _decide_outcome_from_judge and the score of _judge_outcome.             *)
(* A number returned by the judge is held in tenths, so that int(float(x)) *)
(* is a truncation toward zero the model performs itself.  The weighted    *)
(* sum is computed exactly (the code uses binary floating point).          *)
(***************************************************************************)
ClosingSignals == {"conditional_commitment", "strong_commitment"}
CommitmentSignals == {"none", "soft_commitment"} \cup ClosingSignals

\* mutant: a soft commitment is allowed to close
DecideOutcomeSoftCloses(commitment, likelihood10) ==
    IF commitment # "none" /\ Trunc10(likelihood10) >= 65 THEN "closed" ELSE "failed"

DecideOutcomeFromJudge(commitment, likelihood10) ==
    IF commitment \in ClosingSignals /\ Trunc10(likelihood10) >= 65 THEN "closed"
    ELSE IF Trunc10(likelihood10) < 35 THEN "failed"
    ELSE "failed"

\* "specialist" in winner or "counsellor" in winner
NamesCounsellor(winner) == \E i \in 1..Len(winner) : winner[i] \in {"specialist", "counsellor"}

FinalTrust(trust, trust_delta10) == Max(0, Min(100, trust + Trunc10(trust_delta10)))

NegotiationScore(likelihood10, trust_delta10, winner, trust, concession) ==
    LET base_score == Trunc10(4 * Trunc10(likelihood10)
                              + 3 * FinalTrust(trust, trust_delta10)
                              + 3 * (100 - concession))
        bonus == IF NamesCounsellor(winner) THEN 10 ELSE 0
    IN  Min(100, base_score + bonus)

\* mutant: the state is broadcast once more after the verdict
JudgeEventsThenState == <<"metrics_update", "analysis", "state_update">>

\* lines 2998-3017: the events of the judge step, in the order they are sent
JudgeEvents == <<"metrics_update", "analysis">>

(***************************************************************************)
(* The round loop's tests (negotiate_websocket).                           *)
(***************************************************************************)
\* mutant: an off-by-one loop bound
LoopConditionOffByOne(r, m, status) == r <= m + 1 /\ status = "ongoing"

\* "while state['round'] <= state['max_rounds'] and state['deal_status'] == 'ongoing'"
LoopCondition(r, m, status) == r <= m /\ status = "ongoing"

\* mutant: only a canned ("fallback") prospect turn counts as a failure
CountFailureFallbackOnly(generation_mode, failures) ==
    IF generation_mode = "fallback" THEN failures + 1 ELSE 0

\* lines 2887-2890: every prospect turn that was not streamed counts
CountFailure(generation_mode, failures) ==
    IF generation_mode = "stream" THEN 0 ELSE failures + 1

\* mutant: the run is ended one failure later
UnstableLate(failures) == failures >= 3

\* "if student_generation_failures >= 2"
Unstable(failures) == failures >= 2

(***************************************************************************)
(* _derive_financials.  The products with 0.75 + willingness/200, 1.10,    *)
(* 1.05, 0.72, 0.65 and 0.80 are computed exactly and truncated; the code  *)
(* computes them in binary floating point, which gives the same integers   *)
(* for the fees and scores of ListedFees and WillingnessScores.            *)
(***************************************************************************)
DeriveFinancials(listed_fee, willingness_score) ==
    LET willingness == Max(0, Min(100, willingness_score))
        student_budget == Max(1000, (listed_fee * (150 + willingness)) \div 200)
        counsellor_offer == Max((listed_fee * 110) \div 100, (student_budget * 105) \div 100)
        floor_offer == Max(Max((counsellor_offer * 72) \div 100, (listed_fee * 65) \div 100), 1000)
        student_opening == Max((student_budget * 80) \div 100, 1000)
    IN  [listed_fee |-> listed_fee,
         student_budget |-> student_budget,
         counsellor_offer |-> counsellor_offer,
         floor_offer |-> floor_offer,
         student_opening |-> student_opening]

\* lines 2775-2780: the inner state the persona gives the session
InitialInnerState(skepticism) ==
    [skepticism_level |-> ClampScore(NumVal(10 * skepticism), 50),
     trust_score |-> ClampScore(NumVal(10 * (55 - (skepticism \div 3))), 45)]

(***************************************************************************)
(* _extract_all_offer_candidates, for amounts written as plain numbers of  *)
(* five digits or more (one token each, int() is the table AmountOf): the  *)
(* number counts when it exceeds 5000 and stands between word boundaries,  *)
(* that is when no letter or digit touches it.                             *)
(***************************************************************************)
AmountTokens == {"30000", "35640", "36000", "40000", "50000"}
AmountOf(tok) ==
    CASE tok = "30000" -> 30000
      [] tok = "35640" -> 35640
      [] tok = "36000" -> 36000
      [] tok = "40000" -> 40000
      [] tok = "50000" -> 50000
      [] tok = "5000" -> 5000

NonWordEdged == WS \cup TagTokens \cup BraceTokens \cup ListTokens \cup {"..."}
StartsWord(tok) == tok \notin NonWordEdged \cup {"-15"}
EndsWord(tok) == tok \notin NonWordEdged \cup LabelPrefixes \cup
                            {CannedStudent[1], CannedCounsellor[1]}

ExtractAllOfferCandidates(text) ==
    {AmountOf(text[i]) : i \in {j \in 1..Len(text) :
        /\ text[j] \in AmountTokens
        /\ AmountOf(text[j]) > 5000
        /\ j = 1 \/ ~EndsWord(text[j - 1])
        /\ j = Len(text) \/ ~StartsWord(text[j + 1])}}

(***************************************************************************)
(* Lines 2432-2439: the first "discount of" that a number follows gives a  *)
(* candidate, the previous offer less that number, when the number is      *)
(* below 60% of the previous offer.                                        *)
(***************************************************************************)
DiscountTokens == AmountTokens \cup {"5000"}

RECURSIVE DiscountValue(_, _)
DiscountValue(text, from) ==
    LET m == FirstIndex(text, {"discount of"}, from)
    IN  IF m = 0 THEN 0
        ELSE LET j == SkipWS(text, m + 1)
             IN  IF j <= Len(text) /\ text[j] \in DiscountTokens
                 THEN AmountOf(text[j])
                 ELSE DiscountValue(text, m + 1)

CounsellorCandidates(text, prev_offer) ==
    LET d_val == DiscountValue(text, 1)
    IN  ExtractAllOfferCandidates(text)
        \cup (IF d_val # 0 /\ 10 * d_val < 6 * prev_offer THEN {prev_offer - d_val} ELSE {})

SetMin(S) == CHOOSE x \in S : \A y \in S : x <= y
SetMax(S) == CHOOSE x \in S : \A y \in S : y <= x

\* mutant: a quote of the prospect's current offer moves the offer as well
CounsellorOfferNoCitation(prev_offer, prev_student_offer, floor, text) ==
    LET valid_coun == {c \in CounsellorCandidates(text, prev_offer) :
                          floor <= c /\ c <= prev_offer}
    IN  IF valid_coun = {} THEN prev_offer ELSE SetMin(valid_coun)

\* lines 2426-2448: the counsellor's offer after the counsellor's text
CounsellorOffer(prev_offer, prev_student_offer, floor, text) ==
    LET valid_coun == {c \in CounsellorCandidates(text, prev_offer) :
                          floor <= c /\ c <= prev_offer}
    IN  IF valid_coun = {} THEN prev_offer
        ELSE IF SetMin(valid_coun) # prev_student_offer THEN SetMin(valid_coun)
        ELSE prev_offer

ReferencePhrases ==
    {"the price of", "listed price", "original price", "price for the", "reduction of"}

\* mutant: a bid above the budget is taken
StudentOfferOverBudget(prev_offer, prev_student_offer, budget, text) ==
    LET valid_stu == {c \in ExtractAllOfferCandidates(text) : prev_student_offer <= c}
    IN  IF valid_stu = {} THEN prev_student_offer ELSE SetMax(valid_stu)

\* lines 2450-2467: the prospect's offer after the prospect's text
StudentOffer(prev_offer, prev_student_offer, budget, text) ==
    LET valid_stu == {c \in ExtractAllOfferCandidates(text) :
                         prev_student_offer <= c /\ c <= budget}
        is_referencing == \E i \in 1..Len(text) : text[i] \in ReferencePhrases
    IN  IF valid_stu = {} THEN prev_student_offer
        ELSE IF SetMax(valid_stu) = prev_offer /\ is_referencing THEN prev_student_offer
        ELSE SetMax(valid_stu)

\* mutant: the prospect's text is read first, and the counsellor's quote is
\* compared with the offer it leaves
OffersAfterStudentFirst(prev_offer, prev_student_offer, floor, budget, counsellor_text, student_text) ==
    LET stu_offer == StudentOffer(prev_offer, prev_student_offer, budget, student_text)
    IN  [counsellor |-> CounsellorOffer(prev_offer, stu_offer, floor, counsellor_text),
         student |-> stu_offer]

\* lines 2424-2467: the two offers after a round
OffersAfter(prev_offer, prev_student_offer, floor, budget, counsellor_text, student_text) ==
    [counsellor |-> CounsellorOffer(prev_offer, prev_student_offer, floor, counsellor_text),
     student |-> StudentOffer(prev_offer, prev_student_offer, budget, student_text)]

\* mutant: a counter moves in every round
ConcessionCountLoose(count, moved) == count + 1

\* lines 2469-2472
ConcessionCount(count, moved) == IF moved THEN count + 1 ELSE count

\* int(a / b) for b > 0
IntDiv(a, b) == IF a >= 0 THEN a \div b ELSE -((-a) \div b)

\* mutant: the score is measured from the floor
ConcessionScoreFromFloor(target, floor, coun_offer) ==
    Min(100, Max(0, IntDiv(100 * (coun_offer - floor), Max(1, target - floor))))

\* lines 2477-2483
ConcessionScore(target, floor, coun_offer) ==
    LET margin == Max(1, target - floor)
    IN  Min(100, Max(0, IntDiv(100 * (target - coun_offer), margin)))

(***************************************************************************)
(* State of one /negotiate session (negotiate_websocket) and of its        *)
(* channel.                                                                *)
(***************************************************************************)
VARIABLES
    pc,                          \* position of the handler
    mode,                        \* pipeline mode of the run
    listed_fee,                  \* the fee read from state["program"]
    persona,                     \* state["persona"], its two scores
    max_rounds,                  \* state["max_rounds"]
    retry_modifier,              \* state["negotiation_metrics"]["retry_modifier"]
    retry_mode,                  \* config.retry_mode
    previous_analysis,           \* the stored analysis the retry context was built from
    persona_calls,               \* calls of _generate_persona made by the handler
    round,                       \* state["round"]
    deal_status,                 \* state["deal_status"]
    student_generation_failures, \* consecutive prospect turns that were not streamed
    messages,                    \* state["messages"], the public transcript
    history_for_reporting,       \* state["history_for_reporting"], the full transcript
    trust_index,                 \* state["negotiation_metrics"]["trust_index"]
    concession_score,            \* state["negotiation_metrics"]["concession_score"]
    tone_escalation,             \* state["negotiation_metrics"]["tone_escalation"]
    objection_intensity,         \* state["negotiation_metrics"]["objection_intensity"]
    close_probability,           \* state["negotiation_metrics"]["close_probability"]
    concession_count_counsellor, \* state["negotiation_metrics"]["concession_count_counsellor"]
    concession_count_student,    \* state["negotiation_metrics"]["concession_count_student"]
    counsellor_position,         \* state["counsellor_position"]
    student_position,            \* state["student_position"]
    student_inner_state,         \* state["student_inner_state"], its two scores
    sentiment,                   \* state["student_inner_state"]["sentiment"]
    unresolved_concerns,         \* state["student_inner_state"]["unresolved_concerns"]
    twin,                        \* the positions of a second session (see TwinStep)
    agent,                       \* speaker of the turn being streamed
    full_text,                   \* buffer of _stream_agent_response
    forwarded,                   \* texts of the stream_chunk events of the running stream
    chunk_count,                 \* stream_chunk_count
    stream_queue,                \* events the stream worker put and the loop has not taken
    student_msg,                 \* the prospect turn returned to the loop
    turn_trace,                  \* what the last finished turn went through
    sent,                        \* events the handler delivered to the client, in order
    copilot_sent,                \* copilot_update events the coaching tasks delivered
    client,                      \* "open" or "gone"
    client_state,                \* websocket.client_state.name
    detected,                    \* the handler has seen the disconnect
    attempted_after_close,       \* events whose send was attempted after that
    judge_calls,                 \* calls of _judge_outcome
    analysis,                    \* the verdict returned by the judge
    last_run,                    \* the deal_status this connection stored as last_run
    last_analysis,               \* SESSION_STORE[session_id]["last_run"]["analysis"]
    copilot_pending,             \* detached coaching tasks not yet finished
    rejects,                     \* inbound messages rejected so far (saturates)
    inbound                      \* kind of the last inbound message of the loop

vars == <<pc, mode, listed_fee, persona, max_rounds, retry_modifier, retry_mode,
          previous_analysis, persona_calls,
          round, deal_status,
          student_generation_failures, messages, history_for_reporting,
          trust_index, concession_score, tone_escalation, objection_intensity,
          close_probability, concession_count_counsellor,
          concession_count_student, counsellor_position, student_position,
          student_inner_state, sentiment, unresolved_concerns, twin, agent,
          full_text, forwarded, chunk_count, stream_queue,
          student_msg, turn_trace, sent, copilot_sent, client, client_state,
          detected, attempted_after_close, judge_calls, analysis, last_run,
          last_analysis,
          copilot_pending, rejects, inbound>>

sessionVars == <<mode, listed_fee, persona, max_rounds, retry_modifier, retry_mode,
                 previous_analysis>>
configVars == <<sessionVars, persona_calls>>
scoreVars == <<tone_escalation, objection_intensity, close_probability>>
positionVars == <<concession_count_counsellor, concession_count_student,
                  counsellor_position, student_position, student_inner_state,
                  sentiment, unresolved_concerns, twin>>
loopVars == <<round, deal_status, student_generation_failures, messages,
              history_for_reporting, trust_index, concession_score, scoreVars,
              positionVars>>
turnVars == <<agent, full_text, forwarded, chunk_count, stream_queue, student_msg,
              turn_trace>>
chanVars == <<sent, client, client_state, detected, attempted_after_close>>
judgeVars == <<judge_calls, analysis, last_run, last_analysis>>
humanVars == <<rejects, inbound>>

Modes == {"ai_vs_ai", "human_vs_ai", "agent_powered_human_vs_ai"}

(***************************************************************************)
(* Lines 2841, 2856 and 2872: every turn gets a fresh uuid4 before it is   *)
(* produced.  The model hands out the turn's ordinal, which is fresh in    *)
(* the same way: no two turns of a session share it.                       *)
(***************************************************************************)
TurnId(round_number, speaker) ==
    2 * (round_number - 1) + (IF speaker = "counsellor" THEN 1 ELSE 2)
HumanModes == {"human_vs_ai", "agent_powered_human_vs_ai"}

NoMessage == [id |-> 0, round |-> 0, agent |-> "none", content |-> <<>>,
              emotional_state |-> <<>>,
              internal_thought |-> <<>>, updated_stats |-> EmptyDict,
              generation_mode |-> "none"]
NoFields == [message |-> <<>>, techniques |-> <<>>, intent |-> <<>>,
             confidence_score |-> 0, emotional_state |-> <<>>,
             internal_thought |-> <<>>, updated_stats |-> EmptyDict]
NoTrace == [agent |-> "none", ended |-> "none", buffer_blank |-> FALSE,
            retry_calls |-> 0, retry_blank |-> FALSE,
            generation_mode |-> "none", content |-> <<>>,
            raw |-> <<>>, fields |-> NoFields, inner_before |-> [skepticism_level |-> 0, trust_score |-> 0],
            complete |-> NoMessage]
NoTwin == [on |-> FALSE, counsellor_offer |-> 0, student_offer |-> 0, concession_score |-> 0]
NoAnalysis == [commitment_signal |-> "none", enrollment_likelihood |-> 0,
               trust_delta |-> 0, winner |-> <<>>, negotiation_score |-> 0,
               trust_before |-> 0]
NoPayload == [message |-> <<>>, internal_thought |-> <<>>]

\* a stored analysis that gives the modifier m
StoredAnalysis(m) ==
    IF m = 0 THEN NoAnalysis
    ELSE [NoAnalysis EXCEPT !.winner = <<"no-deal">>, !.negotiation_score = 10 * m]

\* handler positions at which the handler has returned
Ended == {"done", "aborted", "errored", "returned"}

(***************************************************************************)
(* Inputs of the model.                                                    *)
(***************************************************************************)
\* chunk texts of a session run, and of the runs that study one round's text
SessionChunks == {<<"w">>}
TurnChunks ==
    {<<"w">>, <<" ">>,
     <<"<message>", "w", "</message>">>,
     <<"MESSAGE:", "\n">>, <<"<thought>", "w", "</thought>">>,
     <<"EMOTIONAL_STATE:", "w">>}

\* what the structured retry can return as its message
RetryPayloads(A) ==
    {[message |-> m, internal_thought |-> <<>>] :
        m \in {<<>>} \cup A}

(***************************************************************************)
(* _looks_like_student_role_drift on the tokens of the model's texts: a    *)
(* hard pattern standing as whole words, or an advisory marker in a        *)
(* message without a question mark.                                        *)
(***************************************************************************)
HardDriftTokens == {"let me explain"}
AdvisoryTokens == {"you should"}

LooksLikeStudentRoleDrift(message) ==
    /\ ~IsBlank(message)
    /\ \/ \E i \in 1..Len(message) :
             /\ message[i] \in HardDriftTokens
             /\ i = 1 \/ ~EndsWord(message[i - 1])
             /\ i = Len(message) \/ ~StartsWord(message[i + 1])
       \/ /\ \E i \in 1..Len(message) : message[i] \in AdvisoryTokens
          /\ \A i \in 1..Len(message) : message[i] # "?"

\* lines 2022-2030: the payload that replaces a rewrite that still drifts
SafePayload ==
    [message |-> <<"I am still processing this. Please clarify one key point for me.">>,
     internal_thought |-> <<"No internal thought captured">>]

\* lines 1979-2031: what _retry_with_structured_json returns when the model
\* answers first, and rewrite to the rewrite pass
GuardedRetry(speaker, first, rewrite) ==
    IF speaker # "student" \/ ~LooksLikeStudentRoleDrift(Strip(first.message)) THEN first
    ELSE IF ~LooksLikeStudentRoleDrift(Strip(rewrite.message)) THEN rewrite
    ELSE SafePayload

RetryResults(speaker, A) ==
    {GuardedRetry(speaker, first, rewrite) :
        first \in RetryPayloads(A), rewrite \in RetryPayloads(A)}

\* a retry message that no stream of SessionChunks holds
RetryWords == {<<"Happy">>}

\* what a human counsellor can type
HumanTexts(A) == {<<>>} \cup A

\* how many of the eight objection tokens the persona's objections and the
\* prospect's text hold together
SessionLevels == {[objection_hits |-> 2]}
JudgeLevels == {[objection_hits |-> h] : h \in {0, 8}}

\* the program fee and the persona scores of a session
Persona(s, w) == [skepticism |-> s, willingness_to_invest_score |-> w,
                  confusion_level |-> 40, financial_anxiety |-> 50]
SessionFees == {45000}
SessionPersonas == {Persona(50, 50)}
\* personas whose skepticism is in and out of range
FieldPersonas == {Persona(s, 50) : s \in {50, 130, -15}}

\* fees and willingness scores from which positions are derived, and what
\* the two parties of such a session say: no number, numbers inside and
\* outside the party's range, the other party's number, a relative discount
ListedFees == {40000, 45000}
WillingnessScores == {50, 100}
OfferPersonas == {Persona(50, w) : w \in WillingnessScores}
CounsellorTexts ==
    {<<"w">>, <<"40000">>, <<"36000">>, <<"35640">>, <<"30000">>,
     <<"discount of", " ", "5000">>}
StudentTexts ==
    {<<"w">>, <<"40000">>, <<"the price of", " ", "40000">>,
     <<"price for the", " ", "40000">>, <<"50000">>}

\* pieces of a prospect's raw output: each field in its tag form (closed
\* and unclosed) and in its label form, state deltas that parse and that
\* do not
FieldChunks ==
    {<<"w">>,
     <<"<message>", "w", "</message>">>, <<"<message>", "w">>,
     <<"<thought>", "w", "</thought>">>, <<"<thought>", "w">>,
     <<"<stats>", JsonClamp, "</stats>">>, <<"<stats>", JsonFraction>>,
     <<"<stats>", JsonNull, "</stats>">>, <<"<stats>", JsonBad, "</stats>">>,
     <<"UPDATED_STATS:", "not-a-json", "\n">>,
     <<"<intent>", "w">>, <<"<confidence>", "130">>, <<"<emotion>", "Happy">>,
     <<"<emotional_state>", "w">>, <<"<techniques>", ListJson>>,
     <<"INTERNAL_THOUGHT:", "w", "\n">>, <<"MESSAGE:", "w", "\n">>,
     <<"EMOTIONAL_STATE:", "Happy", "\n">>, <<"CONFIDENCE_SCORE:", "85", "\n">>,
     <<"STRATEGIC_INTENT:", "w", "\n">>}

\* verdicts the judge model can return (numbers in tenths)
Verdict(c, l, d, w) == [commitment_signal |-> c, enrollment_likelihood |-> l,
                        trust_delta |-> d, winner |-> w]
SessionVerdicts ==
    {Verdict("none", 0, 0, <<"no-deal">>),
     Verdict("strong_commitment", 800, 50, <<"counsellor">>)}
JudgeVerdicts ==
    {Verdict(c, l, d, w) :
        c \in CommitmentSignals,
        l \in {-2000, 349, 649, 650, 1500},
        d \in {-1000, 200},
        w \in {<<"no-deal">>, <<"specialist">>}}

\* line 2776
InitialSentiment(financial_anxiety) ==
    IF financial_anxiety > 65 THEN "anxious" ELSE "curious"

(***************************************************************************)
(* Initial state: the handler has accepted the socket and awaits the       *)
(* configuration message; the run's mode, round bound and retry modifier   *)
(* are those the configuration and the stored session will give it.        *)
(***************************************************************************)
InitFrom(M, R, RM, F, P, paired) ==
    /\ pc = "config"
    /\ mode \in M
    /\ listed_fee \in F
    /\ persona \in P
    /\ \E fin \in {DeriveFinancials(listed_fee, persona.willingness_to_invest_score)} :
          /\ counsellor_position = [target_offer |-> fin.counsellor_offer,
                                    current_offer |-> fin.counsellor_offer,
                                    floor_offer |-> fin.floor_offer]
          /\ student_position = [budget |-> fin.student_budget,
                                 current_offer |-> fin.student_opening]
          /\ twin = IF paired
                    THEN [on |-> TRUE, counsellor_offer |-> fin.counsellor_offer,
                          student_offer |-> fin.student_opening, concession_score |-> 0]
                    ELSE NoTwin
    /\ student_inner_state = InitialInnerState(persona.skepticism)
    /\ sentiment = InitialSentiment(persona.financial_anxiety)
    /\ unresolved_concerns = <<"Price", "Job Guarantee">>
    /\ concession_count_counsellor = 0
    /\ concession_count_student = 0
    /\ max_rounds \in R
    /\ retry_modifier \in RM
    /\ retry_mode = (retry_modifier # 0)
    /\ previous_analysis = StoredAnalysis(retry_modifier)
    /\ last_analysis = previous_analysis
    /\ persona_calls = 0
    /\ round = 1
    /\ deal_status = "ongoing"
    /\ student_generation_failures = 0
    /\ messages = <<>>
    /\ history_for_reporting = <<>>
    /\ trust_index = Min(100, 50 + retry_modifier)
    /\ concession_score = 0
    /\ tone_escalation = Max(0, 15 - retry_modifier)
    /\ objection_intensity = 45
    /\ close_probability = 45
    /\ agent = "none"
    /\ full_text = <<>>
    /\ forwarded = <<>>
    /\ chunk_count = 0
    /\ stream_queue = <<>>
    /\ student_msg = NoMessage
    /\ turn_trace = NoTrace
    /\ sent = <<>>
    /\ copilot_sent = 0
    /\ client = "open"
    /\ client_state = "CONNECTED"
    /\ detected = FALSE
    /\ attempted_after_close = <<>>
    /\ judge_calls = 0
    /\ analysis = NoAnalysis
    /\ last_run = "none"
    /\ copilot_pending = 0
    /\ rejects = 0
    /\ inbound = "none"

InitWith(M, R, RM) == InitFrom(M, R, RM, SessionFees, SessionPersonas, FALSE)

Init == InitWith(Modes, 1..MaxRoundsBound, {0})

(***************************************************************************)
(* The client goes away.  What the server's socket object then reports is  *)
(* up to the transport: when the handler next reads client_state it may or *)
(* may not find DISCONNECTED (ClientStateReadings); client_state holds the *)
(* last reading.                                                           *)
(***************************************************************************)
ClientDisconnect ==
    /\ client = "open"
    /\ pc \notin Ended \/ copilot_pending > 0
    /\ client' = "gone"
    /\ UNCHANGED <<pc, configVars, loopVars, turnVars, sent, client_state, detected,
                   attempted_after_close, judgeVars, copilot_pending, copilot_sent, humanVars>>

ClientStateReadings ==
    IF client = "open" THEN {"CONNECTED"} ELSE {"CONNECTED", "DISCONNECTED"}

\* the handler's send of the events evs, the first of which fails when the
\* client is gone: _ws_send_json raises ClientStreamClosed
Deliver(evs) ==
    IF client = "open"
    THEN /\ sent' = sent \o evs
         /\ UNCHANGED <<client, client_state, detected, attempted_after_close>>
    ELSE /\ detected' = TRUE
         /\ UNCHANGED <<sent, client, client_state, attempted_after_close>>

\* websocket.receive_json() on a closed channel raises WebSocketDisconnect
ReceiveFails ==
    /\ detected' = TRUE
    /\ client_state' = "DISCONNECTED"
    /\ UNCHANGED <<sent, client, attempted_after_close>>

(***************************************************************************)
(* Lines 2717-2820: the configuration message, the token and session       *)
(* checks, the construction of the state, session_ready and the first      *)
(* metrics_update.  The stored persona is regenerated when its schema is   *)
(* the legacy one and again when the configuration forces another          *)
(* archetype (lines 2727-2741): G holds the numbers of regenerations the   *)
(* stored session and the configuration can call for.                      *)
(***************************************************************************)
\* persona regenerations the stored personas of the sessions call for
StoredPersonas == {0}
AnyPersonas == {0, 1, 2}

\* mutant: the persona is regenerated before the token and the session are
\* looked at
PersonaCallsUnchecked(kind, regenerations) == regenerations

\* calls of _generate_persona for a configuration message of that kind
PersonaCalls(kind, regenerations) == IF kind = "ok" THEN regenerations ELSE 0

ReceiveConfigOf(G) ==
    /\ pc = "config"
    /\ \E kind \in {"ok", "bad_token", "bad_session"}, regenerations \in G :
          IF client # "open"
          THEN /\ ReceiveFails
               /\ pc' = "aborted"
               /\ UNCHANGED persona_calls
          ELSE /\ persona_calls' = PersonaCalls(kind, regenerations)
               /\ IF kind = "bad_token"
                  THEN /\ Deliver(<<"error">>)
                       /\ pc' = "errored"
                  ELSE IF kind = "bad_session"
                  THEN /\ Deliver(<<"error">>)
                       /\ pc' = "returned"
                  ELSE /\ Deliver(<<"session_ready", "metrics_update">>)
                       /\ pc' = "loop"
    /\ UNCHANGED <<sessionVars, loopVars, turnVars, judgeVars, copilot_pending, copilot_sent, humanVars>>

ReceiveConfig == ReceiveConfigOf(StoredPersonas)

(***************************************************************************)
(* Line 2824: the loop test.  In the human-driven modes the body first     *)
(* awaits an inbound message, otherwise it starts the counsellor's stream. *)
(***************************************************************************)
\* mutant: the prospect speaks first
FirstSpeakerStudent == "student"

\* lines 2856-2857: the round's first stream is the counsellor's
FirstSpeaker == "counsellor"

LoopHead ==
    /\ pc = "loop"
    /\ IF LoopCondition(round, max_rounds, deal_status)
       THEN IF mode \in HumanModes
            THEN /\ pc' = "await_human"
                 /\ UNCHANGED <<agent, full_text, forwarded, chunk_count>>
            ELSE /\ pc' = "stream"
                 /\ agent' = FirstSpeaker
                 /\ full_text' = <<>>
                 /\ forwarded' = <<>>
                 /\ chunk_count' = 0
       ELSE /\ pc' = "judge"
            /\ UNCHANGED <<agent, full_text, forwarded, chunk_count>>
    /\ inbound' = "none"
    /\ UNCHANGED <<configVars, loopVars, stream_queue, student_msg, turn_trace,
                   chanVars, judgeVars, copilot_pending, copilot_sent, rejects>>

(***************************************************************************)
(* Lines 2825-2854 and 2869-2870: the inbound message of a human-driven    *)
(* round.  A message that is not a human_input, or whose text is blank, is *)
(* answered with an error or a warning and the loop continues; a valid one *)
(* is classified, announced and appended as the counsellor's turn, and the *)
(* prospect's stream starts.  The log keeps the first MaxRejects answers   *)
(* to rejected messages.                                                   *)
(***************************************************************************)
\* mutant: the rejection also broadcasts the state
RejectEventsWithState(kind) == <<"error", "state_update">>

\* lines 2828-2840: what a rejected inbound message is answered with
RejectEvents(kind) == IF kind # "human_input" THEN <<"error">> ELSE <<"warning">>

ReceiveHuman(A) ==
    /\ pc = "await_human"
    /\ IF client # "open"
       THEN /\ ReceiveFails
            /\ pc' = "aborted"
            /\ UNCHANGED <<loopVars, turnVars, humanVars>>
       ELSE \E kind \in {"human_input", "other"}, text \in HumanTexts(A) :
              IF kind # "human_input" \/ Strip(text) = <<>>
              THEN /\ sent' = IF rejects < MaxRejects THEN sent \o RejectEvents(kind)
                              ELSE sent
                   /\ rejects' = Min(rejects + 1, MaxRejects)
                   /\ inbound' = IF kind # "human_input" THEN "not_human_input" ELSE "empty_text"
                   /\ pc' = "loop"
                   /\ UNCHANGED <<loopVars, turnVars, client, client_state,
                                  detected, attempted_after_close>>
              ELSE LET counsellor_msg ==
                           [id |-> TurnId(round, "counsellor"),
                            round |-> round, agent |-> "counsellor",
                            content |-> OrElse(Strip(text), Placeholder),
                            \* the fallback tag of line 1339; no step reads it
                            emotional_state |-> <<"calm">>,
                            internal_thought |-> <<>>,
                            updated_stats |-> EmptyDict,
                            generation_mode |-> "human_shadow"]
                   IN  /\ sent' = sent \o <<"intent_update", "message_complete">>
                       /\ messages' = Append(messages, counsellor_msg)
                       /\ history_for_reporting' = Append(history_for_reporting, counsellor_msg)
                       /\ turn_trace' = [NoTrace EXCEPT !.agent = "counsellor",
                                                        !.ended = "human",
                                                        !.generation_mode = "human_shadow",
                                                        !.content = counsellor_msg.content]
                       /\ inbound' = "human_input"
                       /\ pc' = "stream"
                       /\ agent' = "student"
                       /\ full_text' = <<>>
                       /\ forwarded' = <<>>
                       /\ chunk_count' = 0
                       /\ UNCHANGED <<round, deal_status, student_generation_failures,
                                      trust_index, concession_score, scoreVars,
                                      positionVars, stream_queue,
                                      student_msg, client, client_state, detected,
                                      attempted_after_close, rejects>>
    /\ UNCHANGED <<configVars, judgeVars, copilot_pending, copilot_sent>>

(***************************************************************************)
(* _stream_agent_response, lines 2125-2176: one "chunk" event of the queue. *)
(* An empty chunk is skipped; any other is appended to the buffer and      *)
(* forwarded.  When the forward fails the except block of line 2177 runs:  *)
(* it re-raises ClientStreamClosed when client_state reads DISCONNECTED    *)
(* and otherwise tries to send an error event before re-raising.           *)
(***************************************************************************)
\* mutant: no chunk is skipped
SkipsNoChunk(text) == FALSE

\* "if not text: ... continue"
SkipsChunk(text) == text = <<>>

HandleChunk(text) ==
    /\ chunk_count' = chunk_count + 1
    /\ IF SkipsChunk(text)
       THEN UNCHANGED <<full_text, forwarded, pc, chanVars>>
       ELSE /\ full_text' = full_text \o text
            /\ forwarded' = IF client = "open" THEN Append(forwarded, text)
                            ELSE forwarded
            /\ IF client = "open"
               THEN /\ sent' = Append(sent, "stream_chunk")
                    /\ UNCHANGED <<pc, client, client_state, detected,
                                   attempted_after_close>>
               ELSE /\ pc' = "aborted"
                    /\ detected' = TRUE
                    /\ client_state' \in ClientStateReadings
                    /\ attempted_after_close' =
                          IF client_state' = "DISCONNECTED"
                          THEN attempted_after_close
                          ELSE Append(attempted_after_close, "error")
                    /\ UNCHANGED <<sent, client>>
    /\ UNCHANGED <<configVars, loopVars, agent, student_msg, turn_trace,
                   judgeVars, copilot_pending, copilot_sent, humanVars>>

\* the worker's put and the loop's get of one chunk, as one step
StreamChunk(A, K) ==
    /\ pc = "stream"
    /\ chunk_count < K
    /\ \E text \in A \cup {<<>>} : HandleChunk(text)
    /\ UNCHANGED stream_queue

(***************************************************************************)
(* Lines 2138-2139 and 2194-2223: the producer reports an upstream error.  *)
(* Unless client_state reads DISCONNECTED, an error event is sent and the  *)
(* exception re-raised; the handler's last except clause (line 3050) then  *)
(* sends a second error event.  The structured retry of line 2252 is not   *)
(* reached: the turn ends with no retry call.                              *)
(***************************************************************************)
RaiseStreamError ==
    /\ client_state' \in ClientStateReadings
    /\ IF client_state' = "DISCONNECTED"
       THEN /\ pc' = "aborted"
            /\ detected' = TRUE
            /\ UNCHANGED <<sent, client, attempted_after_close>>
       ELSE IF client = "open"
       THEN /\ pc' = "errored"
            /\ sent' = sent \o <<"error", "error">>
            /\ UNCHANGED <<client, detected, attempted_after_close>>
       ELSE /\ pc' = "errored"
            /\ detected' = TRUE
            /\ attempted_after_close' = Append(attempted_after_close, "error")
            /\ UNCHANGED <<sent, client>>
    /\ full_text' = <<>>
    /\ forwarded' = <<>>
    /\ chunk_count' = 0
    /\ turn_trace' = [NoTrace EXCEPT !.agent = agent, !.ended = "error"]
    /\ UNCHANGED <<configVars, loopVars, agent, student_msg,
                   judgeVars, copilot_pending, copilot_sent, humanVars>>

\* the worker's put and the loop's get of the "error" event, as one step
StreamError ==
    /\ pc = "stream"
    /\ RaiseStreamError
    /\ UNCHANGED stream_queue

(***************************************************************************)
(* Lines 2136-2137, 2178-2193 and 2252-2404: the stream ends with "done"   *)
(* or with the idle timeout (which empties the buffer); the turn is        *)
(* finalized and announced.  Lines 2869-2886: the counsellor's turn is     *)
(* appended and the prospect's stream starts; the prospect's turn goes     *)
(* back to the loop.                                                       *)
(***************************************************************************)
FinishTurn(ended, buffer, A) ==
    \E payload \in (IF IsBlank(buffer) THEN RetryResults(agent, A) ELSE {NoPayload}) :
     \E res \in {TurnResult(agent, buffer, payload)} :
       LET merged_state ==
               IF agent = "student"
               THEN MergedDict(MergeStudentInnerState(student_inner_state,
                                                      res.fields.updated_stats),
                               MergeSentiment(sentiment, res.fields.updated_stats),
                               MergeConcerns(unresolved_concerns,
                                             res.fields.updated_stats))
               ELSE EmptyDict
           msg == [id |-> TurnId(round, agent),
                   round |-> round, agent |-> agent, content |-> res.content,
                   emotional_state |-> res.fields.emotional_state,
                   internal_thought |-> res.internal_thought,
                   updated_stats |-> merged_state,
                   generation_mode |-> res.generation_mode]
           evs == (IF res.retry_chunk THEN <<"stream_chunk">> ELSE <<>>)
                  \o (IF agent = "student" /\ res.internal_thought # <<>>
                      THEN <<"student_thought">> ELSE <<>>)
                  \o <<"intent_update", "message_complete">>
       IN  /\ turn_trace' = [agent |-> agent, ended |-> ended,
                             buffer_blank |-> IsBlank(buffer),
                             retry_calls |-> res.retry_calls,
                             retry_blank |-> IsBlank(buffer) /\ IsBlank(payload.message),
                             generation_mode |-> res.generation_mode,
                             content |-> res.content,
                             raw |-> res.raw,
                             fields |-> res.fields,
                             inner_before |-> student_inner_state,
                             complete |-> IF client = "open" THEN msg ELSE NoMessage]
           /\ Deliver(evs)
           /\ full_text' = <<>>
           /\ forwarded' = <<>>
           /\ chunk_count' = 0
           /\ IF client # "open"
              THEN /\ pc' = "aborted"
                   /\ UNCHANGED <<messages, history_for_reporting, agent, student_msg>>
              ELSE IF agent = "counsellor"
              THEN /\ messages' = Append(messages, msg)
                   /\ history_for_reporting' = Append(history_for_reporting, msg)
                   /\ agent' = "student"
                   /\ pc' = "stream"
                   /\ UNCHANGED student_msg
              ELSE /\ student_msg' = msg
                   /\ pc' = "post_student"
                   /\ UNCHANGED <<messages, history_for_reporting, agent>>
           /\ UNCHANGED <<configVars, round, deal_status, student_generation_failures,
                          trust_index, concession_score, scoreVars, positionVars,
                          judgeVars,
                          copilot_pending, copilot_sent, humanVars>>

\* the worker's put and the loop's get of the "done" event, as one step
StreamDone(A) ==
    /\ pc = "stream"
    /\ FinishTurn("done", full_text, A)
    /\ UNCHANGED stream_queue

\* mutant: the timeout keeps what was streamed
TimeoutBufferKept(buffer) == buffer

\* line 2193, full_text = "": the buffer a timeout leaves
TimeoutBuffer(buffer) == <<>>

\* lines 2127-2135: the get found the queue empty for the whole idle timeout
StreamTimeout(A) ==
    /\ pc = "stream"
    /\ stream_queue = <<>>
    /\ FinishTurn("timeout", TimeoutBuffer(full_text), A)
    /\ UNCHANGED stream_queue

(***************************************************************************)
(* Lines 2108-2123, the producer on its own thread.  stream_queue is       *)
(* queue.Queue() with no maxsize, so put never waits: the worker pushes    *)
(* the next chunk of the stream, or "done" after the last one, or "error", *)
(* whatever the loop has taken so far.  The worker stops after "done" or   *)
(* "error".  K is the length of the longest stream.                        *)
(***************************************************************************)
ChunkEvent(text) == [type |-> "chunk", payload |-> text]
DoneEvent == [type |-> "done", payload |-> <<>>]
ErrorEvent == [type |-> "error", payload |-> <<>>]

WorkerRunning ==
    IF stream_queue = <<>> THEN TRUE
    ELSE stream_queue[Len(stream_queue)].type = "chunk"

WorkerPut(A, K) ==
    /\ pc = "stream"
    /\ WorkerRunning
    /\ \E event \in {ChunkEvent(text) : text \in A \cup {<<>>}} \cup {DoneEvent, ErrorEvent} :
          /\ event.type = "chunk" => chunk_count + Len(stream_queue) < K
          /\ stream_queue' = Append(stream_queue, event)
    /\ UNCHANGED <<pc, configVars, loopVars, agent, full_text, forwarded, chunk_count,
                   student_msg, turn_trace, chanVars, judgeVars, copilot_pending,
                   copilot_sent, humanVars>>

(***************************************************************************)
(* Lines 2125-2176, the consumer: the loop takes the oldest event of the   *)
(* queue and handles it as the one-step actions above do.  The queue of a  *)
(* turn is dropped with the turn.                                          *)
(***************************************************************************)
QueueGet(A) ==
    /\ pc = "stream"
    /\ stream_queue # <<>>
    /\ \E event \in {Head(stream_queue)} :
          IF event.type = "chunk"
          THEN /\ HandleChunk(event.payload)
               /\ stream_queue' = IF pc' = "stream" THEN Tail(stream_queue) ELSE <<>>
          ELSE /\ IF event.type = "done" THEN FinishTurn("done", full_text, A)
                  ELSE RaiseStreamError
               /\ stream_queue' = <<>>

(***************************************************************************)
(* The positions of a second session that has the same program, persona    *)
(* and counsellor texts as this one and whose prospect says something      *)
(* else: each round it goes through the same offer update with the         *)
(* counsellor's text of this session and a prospect text of its own.       *)
(***************************************************************************)
TwinContents == {<<"w">>, <<"40000">>}

TwinStep(counsellor_text) ==
    IF ~twin.on THEN UNCHANGED twin
    ELSE \E alt \in TwinContents :
          \E offers \in {OffersAfter(twin.counsellor_offer, twin.student_offer,
                                     counsellor_position.floor_offer,
                                     student_position.budget, counsellor_text, alt)} :
             twin' = [on |-> TRUE,
                      counsellor_offer |-> offers.counsellor,
                      student_offer |-> offers.student,
                      concession_score |-> ConcessionScore(counsellor_position.target_offer,
                                                           counsellor_position.floor_offer,
                                                           offers.counsellor)]

(***************************************************************************)
(* _update_metrics, lines 2422-2483: the two offers, the two concession    *)
(* counters and the concession score after a round whose counsellor said   *)
(* counsellor_text and whose prospect said student_text.  The trust index  *)
(* (lines 2485-2533) is represented by its effect: it is left at one of    *)
(* the levels L.                                                           *)
(***************************************************************************)
(***************************************************************************)
(* Lines 2485-2533 of _update_metrics: the tone and the trust move with    *)
(* the emotion tag of the prospect's turn, the objection intensity with    *)
(* the objection tokens, and the close probability is recomputed.          *)
(***************************************************************************)
NegativeTags == {"frustrated", "confused"}
PositiveTags == {"excited", "calm"}

\* line 2485: the tag, "calm" when the turn has none, in lower case
EmotionalTag(emotional_state) ==
    IF emotional_state = <<>> THEN <<"calm">>
    ELSE [i \in 1..Len(emotional_state) |-> Lower(emotional_state[i])]

IsTag(emotional, tags) == Len(emotional) = 1 /\ emotional[1] \in tags

\* mutant: the tone starts again from its opening value
ToneFromScratch(tone, emotional) ==
    IF IsTag(emotional, NegativeTags) THEN Min(100, 15 + 8)
    ELSE IF IsTag(emotional, PositiveTags) THEN Max(0, 15 - 4)
    ELSE 15

ToneAfter(tone, emotional) ==
    IF IsTag(emotional, NegativeTags) THEN Min(100, tone + 8)
    ELSE IF IsTag(emotional, PositiveTags) THEN Max(0, tone - 4)
    ELSE tone

TrustStep(trust, emotional) ==
    IF IsTag(emotional, NegativeTags) THEN Max(0, trust - 6)
    ELSE IF IsTag(emotional, PositiveTags) THEN Min(100, trust + 5)
    ELSE trust

\* int() of a quotient: truncation towards zero
TruncDiv(n, d) == IF n >= 0 THEN n \div d ELSE -((-n) \div d)

\* line 2523: 0.75 and 0.25 are binary fractions, the sum is exact
TrustBlend(trust, trust_score) ==
    Min(100, Max(0, TruncDiv(75 * trust + 25 * trust_score, 100)))

\* int() of a sum of products by decimal fractions, n / d being its exact
\* value: binary floating point gives the truncated quotient, except that
\* a sum whose exact value is a whole number can fall just short of it
FloatInt(n, d) ==
    IF n % d # 0 THEN {TruncDiv(n, d)}
    ELSE IF n > 0 THEN {TruncDiv(n, d) - 1, TruncDiv(n, d)}
    ELSE IF n < 0 THEN {TruncDiv(n, d), TruncDiv(n, d) + 1}
    ELSE {0}

\* lines 2493-2499 and 2515-2522
ObjectionAfter(objection, hits, skepticism_level, confusion_level) ==
    LET moved == Min(100, Max(0, objection + (hits - 2) * 2))
    IN  {Min(100, o) : o \in FloatInt(7 * moved + 2 * skepticism_level + confusion_level, 10)}

\* Python's floor division
FloorDiv(n, d) == IF n >= 0 THEN n \div d ELSE -((-n + d - 1) \div d)

\* lines 2524-2532
CloseProbability(trust, objection, tone, willingness_to_invest_score, modifier) ==
    LET trust_score == Min(100, trust + FloorDiv(modifier, 2))
        willingness == Min(100, willingness_to_invest_score + modifier)
    IN  FloatInt(35 * trust_score + 25 * (100 - objection) + 15 * (100 - tone)
                 + 25 * willingness, 100)

(***************************************************************************)
(* Lines 2500-2513 of _update_metrics: the scorer adds to the inner        *)
(* state's concerns those the prospect's text names, leaves them sorted,   *)
(* and sets the sentiment from the emotion tag.                            *)
(***************************************************************************)
\* the tokens of the model's texts that hold a word of lines 2503-2508
PriceTokens == {"the price of", "listed price", "original price", "price for the"}
EffortTokens == {"time"}

NamedConcerns(student_text) ==
    (IF \E i \in 1..Len(student_text) : student_text[i] \in PriceTokens
     THEN {"Price"} ELSE {})
    \cup (IF \E i \in 1..Len(student_text) : student_text[i] \in EffortTokens
          THEN {"Effort/Time"} ELSE {})

\* sorted(): the concerns of the model in the order of their code points
ConcernOrder == <<"Effort/Time", "Job Guarantee", "Price", "a">>

RECURSIVE SortedFrom(_, _)
SortedFrom(S, i) ==
    IF i > Len(ConcernOrder) THEN <<>>
    ELSE (IF ConcernOrder[i] \in S THEN <<ConcernOrder[i]>> ELSE <<>>)
         \o SortedFrom(S, i + 1)

ConcernsAfter(concerns, student_text) ==
    SortedFrom({concerns[i] : i \in 1..Len(concerns)} \cup NamedConcerns(student_text), 1)

SentimentAfter(merged_sentiment, emotional) ==
    IF IsTag(emotional, NegativeTags) THEN emotional[1]
    ELSE IF IsTag(emotional, PositiveTags) THEN "curious"
    ELSE merged_sentiment

UpdateMetrics(counsellor_text, student_text, emotional_state, L) ==
    \E offers \in {OffersAfter(counsellor_position.current_offer,
                               student_position.current_offer,
                               counsellor_position.floor_offer,
                               student_position.budget, counsellor_text, student_text)} :
       /\ concession_count_counsellor' =
             ConcessionCount(concession_count_counsellor,
                             offers.counsellor < counsellor_position.current_offer)
       /\ concession_count_student' =
             ConcessionCount(concession_count_student,
                             offers.student > student_position.current_offer)
       /\ counsellor_position' =
             [counsellor_position EXCEPT !.current_offer = offers.counsellor]
       /\ student_position' = [student_position EXCEPT !.current_offer = offers.student]
       /\ concession_score' = ConcessionScore(counsellor_position.target_offer,
                                              counsellor_position.floor_offer,
                                              offers.counsellor)
       /\ unresolved_concerns' =
             ConcernsAfter(MergeConcerns(unresolved_concerns, student_msg.updated_stats),
                           student_text)
       /\ \E emotional \in {EmotionalTag(emotional_state)} :
             /\ sentiment' = SentimentAfter(MergeSentiment(sentiment,
                                                           student_msg.updated_stats),
                                            emotional)
             /\ tone_escalation' = ToneAfter(tone_escalation, emotional)
             /\ trust_index' = TrustBlend(TrustStep(trust_index, emotional),
                                          student_inner_state'.trust_score)
       /\ \E l \in L :
             objection_intensity' \in ObjectionAfter(objection_intensity, l.objection_hits,
                                                     student_inner_state'.skepticism_level,
                                                     persona.confusion_level)
       /\ close_probability' \in CloseProbability(trust_index', objection_intensity',
                                                  tone_escalation',
                                                  persona.willingness_to_invest_score,
                                                  retry_modifier)

(***************************************************************************)
(* Lines 2887-2985: the rest of the round.  The failure counter, the       *)
(* forced "failed" with its warning, the merge of the prospect's state,    *)
(* the two appends (the public copy without the private fields), the       *)
(* detached coaching task, the metrics update, the state and metrics       *)
(* broadcast, the round increment.                                         *)
(***************************************************************************)
FullCopy(msg) == msg

\* Lines 2917-2920: the copy of the prospect's turn that goes to the public
\* transcript, with the rationale and the state delta emptied.
SpokenCopy(msg) == [msg EXCEPT !.internal_thought = <<>>, !.updated_stats = EmptyDict]

PostStudent(L) ==
    /\ pc = "post_student"
    /\ LET failures == CountFailure(student_msg.generation_mode, student_generation_failures)
           unstable == Unstable(failures)
           spoken_student_msg == SpokenCopy(student_msg)
           counsellor_msg == messages[Len(messages)]
       IN  /\ student_generation_failures' = failures
           /\ deal_status' = IF unstable THEN "failed" ELSE deal_status
           /\ Deliver((IF unstable THEN <<"warning">> ELSE <<>>)
                      \o <<"state_update", "metrics_update">>)
           /\ IF client # "open" /\ unstable
              THEN /\ pc' = "aborted"
                   /\ UNCHANGED <<round, messages, history_for_reporting,
                                  trust_index, concession_score, scoreVars,
                                  positionVars,
                                  copilot_pending, copilot_sent>>
              ELSE /\ student_inner_state' =
                         MergeStudentInnerState(student_inner_state,
                                                student_msg.updated_stats)
                   /\ messages' = Append(messages, spoken_student_msg)
                   /\ history_for_reporting' = Append(history_for_reporting, student_msg)
                   /\ copilot_pending' = IF mode = "agent_powered_human_vs_ai"
                                         THEN copilot_pending + 1 ELSE copilot_pending
                   /\ UpdateMetrics(counsellor_msg.content, student_msg.content,
                                    spoken_student_msg.emotional_state, L)
                   /\ TwinStep(counsellor_msg.content)
                   /\ IF client = "open"
                      THEN /\ round' = round + 1
                           /\ pc' = "loop"
                      ELSE /\ pc' = "aborted"
                           /\ UNCHANGED round
    /\ student_msg' = NoMessage
    /\ UNCHANGED <<configVars, agent, full_text, forwarded, chunk_count, stream_queue,
                   turn_trace, judgeVars, humanVars, copilot_sent>>

(***************************************************************************)
(* Lines 2987-3023: the judge call, the metrics synchronised with the      *)
(* verdict, the final metrics_update, the outcome decision, the analysis   *)
(* event and the stored last run.                                          *)
(***************************************************************************)
\* mutant: the record is stored whether or not the verdict went out
StoresLastRunAlways(delivered) == TRUE

\* lines 3001-3018: the assignment follows the send of the analysis event,
\* which raises when the client is gone
StoresLastRun(delivered) == delivered

JudgeStep(V) ==
    /\ pc = "judge"
    /\ \E v \in V :
          /\ judge_calls' = judge_calls + 1
          /\ analysis' = [commitment_signal |-> v.commitment_signal,
                          enrollment_likelihood |-> v.enrollment_likelihood,
                          trust_delta |-> v.trust_delta,
                          winner |-> v.winner,
                          negotiation_score |->
                              NegotiationScore(v.enrollment_likelihood, v.trust_delta,
                                               v.winner, trust_index, concession_score),
                          trust_before |-> trust_index]
          /\ close_probability' = Trunc10(v.enrollment_likelihood)
          /\ trust_index' = Max(0, Min(100, 50 + retry_modifier + Trunc10(v.trust_delta)))
          /\ Deliver(JudgeEvents)
          /\ IF client = "open"
             THEN /\ deal_status' = DecideOutcomeFromJudge(v.commitment_signal,
                                                           v.enrollment_likelihood)
                  /\ last_run' = deal_status'
                  /\ pc' = "gather"
             ELSE /\ pc' = "aborted"
                  /\ UNCHANGED <<deal_status, last_run>>
          /\ last_analysis' = IF StoresLastRun(client = "open") THEN analysis'
                              ELSE last_analysis
    /\ UNCHANGED <<configVars, round, student_generation_failures, messages,
                   history_for_reporting, concession_score, tone_escalation,
                   objection_intensity, positionVars, turnVars,
                   copilot_pending, copilot_sent, humanVars>>

(***************************************************************************)
(* Lines 3024-3045: the coaching tasks still running are awaited, then the *)
(* handler returns.                                                        *)
(***************************************************************************)
Finish ==
    /\ pc = "gather"
    /\ copilot_pending = 0
    /\ pc' = "done"
    /\ UNCHANGED <<configVars, loopVars, turnVars, chanVars, judgeVars,
                   copilot_pending, copilot_sent, humanVars>>

(***************************************************************************)
(* A coaching task whose failure is not swallowed: it ends the session     *)
(* with an error instead of being recorded by the handler at 2947-2956.    *)
(***************************************************************************)
CopilotFailureRaised ==
    /\ copilot_pending > 0
    /\ copilot_pending' = copilot_pending - 1
    /\ pc' = "errored"
    /\ deal_status' = "failed"
    /\ UNCHANGED <<configVars, round, student_generation_failures, messages,
                   history_for_reporting, trust_index, concession_score, scoreVars,
                   positionVars, turnVars, chanVars, judgeVars, copilot_sent,
                   humanVars>>

(***************************************************************************)
(* _dispatch_copilot_update, lines 2927-2957: a detached coaching task     *)
(* finishes.  It sends copilot_update unless the tips generation failed;   *)
(* a failed send is logged and swallowed.                                  *)
(***************************************************************************)
CopilotFinish ==
    /\ copilot_pending > 0
    /\ copilot_pending' = copilot_pending - 1
    /\ \E outcome \in {"tips", "failed"} :
          IF outcome = "failed"
          THEN UNCHANGED <<chanVars, copilot_sent>>
          ELSE IF client = "open"
          THEN /\ copilot_sent' = copilot_sent + 1
               /\ UNCHANGED chanVars
          ELSE /\ attempted_after_close' =
                     IF detected THEN Append(attempted_after_close, "copilot_update")
                     ELSE attempted_after_close
               /\ UNCHANGED <<sent, client, client_state, detected, copilot_sent>>
    /\ UNCHANGED <<pc, configVars, loopVars, turnVars, judgeVars, humanVars>>

(***************************************************************************)
(* Specifications.                                                         *)
(***************************************************************************)
(***************************************************************************)
(* Lines 2750-2758, the retry context.  previous_analysis is the stored    *)
(* analysis when the configuration asks for a retry and {} otherwise; the  *)
(* modifier is min(15, int(float(negotiation_score) / 10)) of a non-empty  *)
(* previous analysis and 0 otherwise.  NoAnalysis stands for {}.           *)
(***************************************************************************)
PreviousAnalysis(retrying, stored) == IF retrying THEN stored ELSE NoAnalysis

RetryModifier(previous) ==
    IF previous = NoAnalysis THEN 0
    ELSE Min(15, TruncDiv(previous.negotiation_score, 10))

(***************************************************************************)
(* The client connects again on the same session after the handler of the  *)
(* earlier connection has returned (lines 2715-2822 of the next call of    *)
(* negotiate_websocket).  The session state is built anew from the stored  *)
(* program and persona; SESSION_STORE keeps its last_run record, from      *)
(* which the retry context is taken when the new configuration asks for a  *)
(* retry.  The client connects again once the coaching tasks of the        *)
(* earlier connection have finished.                                       *)
(***************************************************************************)
NewRun ==
    /\ pc \in Ended
    /\ copilot_pending = 0
    /\ pc' = "config"
    /\ retry_mode' \in BOOLEAN
    /\ previous_analysis' = PreviousAnalysis(retry_mode', last_analysis)
    /\ retry_modifier' = RetryModifier(previous_analysis')
    /\ \E fin \in {DeriveFinancials(listed_fee, persona.willingness_to_invest_score)} :
          /\ counsellor_position' = [target_offer |-> fin.counsellor_offer,
                                     current_offer |-> fin.counsellor_offer,
                                     floor_offer |-> fin.floor_offer]
          /\ student_position' = [budget |-> fin.student_budget,
                                  current_offer |-> fin.student_opening]
    /\ student_inner_state' = InitialInnerState(persona.skepticism)
    /\ sentiment' = InitialSentiment(persona.financial_anxiety)
    /\ unresolved_concerns' = <<"Price", "Job Guarantee">>
    /\ concession_count_counsellor' = 0
    /\ concession_count_student' = 0
    /\ persona_calls' = 0
    /\ round' = 1
    /\ deal_status' = "ongoing"
    /\ student_generation_failures' = 0
    /\ messages' = <<>>
    /\ history_for_reporting' = <<>>
    /\ trust_index' = Min(100, 50 + retry_modifier')
    /\ concession_score' = 0
    /\ tone_escalation' = Max(0, 15 - retry_modifier')
    /\ objection_intensity' = 45
    /\ close_probability' = 45
    /\ agent' = "none"
    /\ full_text' = <<>>
    /\ forwarded' = <<>>
    /\ chunk_count' = 0
    /\ stream_queue' = <<>>
    /\ student_msg' = NoMessage
    /\ turn_trace' = NoTrace
    /\ sent' = <<>>
    /\ client' = "open"
    /\ client_state' = "CONNECTED"
    /\ detected' = FALSE
    /\ attempted_after_close' = <<>>
    /\ judge_calls' = 0
    /\ analysis' = NoAnalysis
    /\ last_run' = "none"
    /\ rejects' = 0
    /\ inbound' = "none"
    /\ copilot_sent' = 0
    /\ UNCHANGED <<mode, listed_fee, persona, max_rounds, twin, last_analysis,
                   copilot_pending>>

HandlerStep(A, K, L, V) ==
    \/ ReceiveConfig
    \/ LoopHead
    \/ ReceiveHuman(A)
    \/ StreamChunk(A, K)
    \/ StreamError
    \/ StreamDone(A)
    \/ StreamTimeout(A)
    \/ PostStudent(L)
    \/ JudgeStep(V)
    \/ Finish
    \/ CopilotFinish

Next == HandlerStep(SessionChunks, 1, SessionLevels, SessionVerdicts) \/ ClientDisconnect

\* sessions of every mode and round bound; a stream delivers at most one chunk
Spec == Init /\ [][Next]_vars

\* the same sessions, every step the handler can take being eventually taken
FairSpec == Spec /\ WF_vars(HandlerStep(SessionChunks, 1, SessionLevels, SessionVerdicts))

\* one-round sessions whose turns draw their text from TurnChunks
InitTurn == InitWith(Modes, {1}, {0})
NextTurn == HandlerStep(TurnChunks, MaxChunks, SessionLevels, SessionVerdicts) \/ ClientDisconnect
SpecTurn == InitTurn /\ [][NextTurn]_vars

\* one-round sessions judged with every verdict and metrics level
InitJudge == InitWith(Modes, {1}, {0, 15})
NextJudge == HandlerStep(SessionChunks, 1, JudgeLevels, JudgeVerdicts) \/ ClientDisconnect
SpecJudge == InitJudge /\ [][NextJudge]_vars

\* one-round sessions of two models whose streams deliver up to MaxChunks
\* chunks and whose structured retry answers with another word
InitTimeout == InitWith({"ai_vs_ai"}, {1}, {0})
NextTimeout ==
    \/ ReceiveConfig
    \/ LoopHead
    \/ StreamChunk(SessionChunks, MaxChunks)
    \/ StreamDone(RetryWords)
    \/ StreamTimeout(RetryWords)
    \/ PostStudent(SessionLevels)
    \/ JudgeStep(SessionVerdicts)
    \/ Finish
    \/ ClientDisconnect
SpecTimeout == InitTimeout /\ [][NextTimeout]_vars

\* one-round sessions of every mode whose stored persona may have to be
\* regenerated
InitConfig == InitWith(Modes, {1}, {0})
NextConfig ==
    \/ ReceiveConfigOf(AnyPersonas)
    \/ LoopHead
    \/ ReceiveHuman(SessionChunks)
    \/ StreamChunk(SessionChunks, 1)
    \/ StreamError
    \/ StreamDone(SessionChunks)
    \/ StreamTimeout(SessionChunks)
    \/ PostStudent(SessionLevels)
    \/ JudgeStep(SessionVerdicts)
    \/ Finish
    \/ CopilotFinish
    \/ ClientDisconnect
SpecConfig == InitConfig /\ [][NextConfig]_vars

\* one-round sessions of a human counsellor whose prospect's raw output is
\* put together from at most two of FieldChunks; the client stays and the
\* stream ends well
InitFields == InitFrom({"human_vs_ai"}, {1}, {0}, SessionFees, FieldPersonas, FALSE)
NextFields ==
    \/ ReceiveConfig
    \/ LoopHead
    \/ ReceiveHuman(SessionChunks)
    \/ StreamChunk(FieldChunks, 2)
    \/ StreamDone(SessionChunks)
    \/ PostStudent(SessionLevels)
    \/ JudgeStep(SessionVerdicts)
    \/ Finish
SpecFields == InitFields /\ [][NextFields]_vars

\* two-round sessions of a human counsellor in which the parties name amounts,
\* each with a second session whose prospect says something else; the
\* client stays and the stream ends well
InitOffers == InitFrom({"human_vs_ai"}, {2}, {0}, ListedFees, OfferPersonas, TRUE)
NextOffers ==
    \/ ReceiveConfig
    \/ LoopHead
    \/ ReceiveHuman(CounsellorTexts)
    \/ StreamChunk(StudentTexts, 1)
    \/ StreamDone(SessionChunks)
    \/ PostStudent(SessionLevels)
    \/ JudgeStep(SessionVerdicts)
    \/ Finish
SpecOffers == InitOffers /\ [][NextOffers]_vars

\* one-round sessions of every mode whose streams and retries can hold the
\* phrasing of a counsellor
DriftChunks == {<<"w">>, <<"let me explain">>, <<"you should">>, <<"?">>}

InitDrift == InitWith(Modes, {1}, {0})
NextDrift == HandlerStep(DriftChunks, 2, SessionLevels, SessionVerdicts) \/ ClientDisconnect
SpecDrift == InitDrift /\ [][NextDrift]_vars

\* one-round sessions of every mode whose turns revise the sentiment and
\* the concerns, name a concern and carry an emotion tag
InnerChunks ==
    {<<"w">>, <<"time">>,
     <<"<stats>", JsonMood, "</stats>">>,
     <<"<stats>", JsonBlankMood, "</stats>">>,
     <<"<emotional_state>", "frustrated", "</emotional_state>">>,
     <<"<emotional_state>", "skeptical", "</emotional_state>">>}
InnerPersonas == {Persona(50, 50), [Persona(50, 50) EXCEPT !.financial_anxiety = 80]}

InitInner == InitFrom(Modes, {1}, {0}, SessionFees, InnerPersonas, FALSE)
NextInner == HandlerStep(InnerChunks, 2, SessionLevels, SessionVerdicts) \/ ClientDisconnect
SpecInner == InitInner /\ [][NextInner]_vars

\* two-round sessions, first runs and retries, whose prospect turns carry
\* an emotion tag and revised stats, judged with likelihoods within and
\* beyond 0..100
MetricChunks ==
    {<<"w">>,
     <<"<emotional_state>", "frustrated", "</emotional_state>">>,
     <<"<emotional_state>", "excited", "</emotional_state>">>,
     <<"<emotional_state>", "skeptical", "</emotional_state>">>,
     <<"<stats>", JsonClamp, "</stats>">>}

MetricVerdicts ==
    {Verdict("none", 0, 0, <<"no-deal">>),
     Verdict("strong_commitment", 1500, 200, <<"specialist">>),
     Verdict("none", -2000, -1000, <<"no-deal">>)}

\* one-round machine sessions whose stream worker and loop take their steps
\* separately, with streams of at most MaxChunks chunks
InitQueue == InitWith({"ai_vs_ai"}, {1}, {0})
NextQueue ==
    \/ ReceiveConfig
    \/ LoopHead
    \/ WorkerPut(SessionChunks, MaxChunks)
    \/ QueueGet(SessionChunks)
    \/ StreamTimeout(SessionChunks)
    \/ PostStudent(SessionLevels)
    \/ JudgeStep(SessionVerdicts)
    \/ Finish
    \/ ClientDisconnect
SpecQueue == InitQueue /\ [][NextQueue]_vars

RetryVerdicts ==
    {Verdict("none", 0, 0, <<"no-deal">>),
     Verdict("strong_commitment", 800, 50, <<"counsellor">>),
     Verdict("none", -2000, -1000, <<"no-deal">>)}

\* one-round sessions of every mode on which the client connects again and
\* again, with or without retry_mode, the first time with nothing stored
InitRetry == InitWith(Modes, {1}, {0})
NextRetry == HandlerStep(SessionChunks, 1, SessionLevels, RetryVerdicts) \/ ClientDisconnect \/ NewRun
SpecRetry == InitRetry /\ [][NextRetry]_vars

InitMetrics == InitFrom({"human_vs_ai"}, {2}, {0, 15}, SessionFees, SessionPersonas, FALSE)
NextMetrics ==
    \/ ReceiveConfig
    \/ LoopHead
    \/ ReceiveHuman(SessionChunks)
    \/ StreamChunk(MetricChunks, 2)
    \/ StreamDone(SessionChunks)
    \/ PostStudent(JudgeLevels)
    \/ JudgeStep(MetricVerdicts)
    \/ Finish
SpecMetrics == InitMetrics /\ [][NextMetrics]_vars

(***************************************************************************)
(* Properties.                                                             *)
(***************************************************************************)
CountOf(s, e) == Cardinality({i \in 1..Len(s) : s[i] = e})

IsStudentTurn(m) == m.agent = "student"
StudentTurns(h) == SelectSeq(h, IsStudentTurn)

\* the handler is past the round loop, by the loop test or by an exception
LoopExited == pc \in {"judge", "gather"} \cup Ended

\* C1: the round counter never exceeds max_rounds + 1 and neither transcript
\* ever holds more than 2 x max_rounds turns, in every mode.
RoundBound ==
    /\ round <= max_rounds + 1
    /\ Len(messages) <= 2 * max_rounds
    /\ Len(history_for_reporting) <= 2 * max_rounds

\* a run that used every round it was allowed
RoundBoundWitness ==
    /\ pc = "judge"
    /\ max_rounds = MaxRoundsBound
    /\ round = max_rounds + 1
    /\ Len(messages) = 2 * max_rounds
    /\ Len(history_for_reporting) = 2 * max_rounds

\* the loop test that follows a second consecutive prospect turn that was
\* not streamed finds the run failed, and there is never a third such turn
ExitsAfterSecondFailure ==
    /\ student_generation_failures <= 2
    /\ (pc = "loop" /\ student_generation_failures >= 2) => deal_status = "failed"

\* the last inbound message of a human-driven round was rejected
InboundRejected == pc = "loop" /\ inbound \in {"not_human_input", "empty_text"}

DealStatusFinal ==
    [][(deal_status \in {"closed", "failed"}) => (deal_status' = deal_status)]_vars

DegradedTurn(m) == m.generation_mode # "stream"
CannedTurn(m) == m.generation_mode # "stream" /\ m.content = CannedStudent

LastTwo(h, P(_)) ==
    LET st == StudentTurns(h)
    IN  Len(st) >= 2 /\ P(st[Len(st)]) /\ P(st[Len(st) - 1])

PerTurnEvents == {"stream_chunk", "message_complete", "state_update"}

\* C5: in a run that no disconnect and no error aborts, the judge is invoked
\* exactly once and exactly one analysis event is emitted; the judge runs
\* only once the loop test has failed, the analysis follows every round's
\* state and metrics broadcast, and no per-turn event follows it.
VerdictOnce ==
    /\ judge_calls <= 1
    /\ CountOf(sent, "analysis") <= judge_calls
    /\ pc = "judge" => (round > max_rounds \/ deal_status # "ongoing")
    /\ judge_calls = 1 => pc \in {"gather", "done", "aborted"}
    /\ pc \in {"gather", "done"} =>
          /\ judge_calls = 1
          /\ CountOf(sent, "analysis") = 1
          /\ CountOf(sent, "state_update") = round - 1
    /\ \A i \in 1..Len(sent) :
          sent[i] = "analysis" =>
             /\ i > 1 /\ sent[i - 1] = "metrics_update"
             /\ \A j \in 1..Len(sent) :
                   /\ (j > i => sent[j] \notin PerTurnEvents)
                   /\ (sent[j] = "state_update" =>
                          j + 1 < i /\ sent[j + 1] = "metrics_update")

\* a run of two rounds that returned after its verdict
VerdictOnceWitness ==
    /\ pc = "done"
    /\ round = 3
    /\ judge_calls = 1
    /\ sent[Len(sent)] = "analysis"

\* C6 as stated: from the moment a disconnect is detected no client-facing
\* event is emitted or attempted, and the judge is not invoked afterwards.
SilentAbort ==
    detected => (attempted_after_close = <<>> /\ pc \in {"aborted", "errored"})

\* C7: after judging, deal_status is closed iff the commitment signal is
\* conditional or strong and the likelihood is at least 65; otherwise it is
\* failed, and it is never ongoing.
DecisionRule ==
    pc \in {"gather", "done"} =>
        deal_status =
            IF /\ analysis.commitment_signal \in
                     {"conditional_commitment", "strong_commitment"}
               /\ analysis.enrollment_likelihood >= 650
            THEN "closed" ELSE "failed"

\* a soft commitment with a high likelihood, judged failed
DecisionRuleWitness ==
    /\ pc = "done"
    /\ analysis.commitment_signal = "soft_commitment"
    /\ analysis.enrollment_likelihood >= 650
    /\ deal_status = "failed"

\* C8 as stated: the negotiation score lies in [0,100] for every verdict the
\* judge model can return, out-of-range likelihood or trust_delta included.
ScoreInRange ==
    judge_calls > 0 => analysis.negotiation_score \in 0..100

\* C9 as stated: a turn is streamed iff its stream completed with a
\* non-blank buffer; otherwise the structured retry is invoked exactly once,
\* the mode being structured_retry when it returns a message and fallback,
\* with the role's canned message as content, when it returns none.
FallbackLadder ==
    turn_trace.ended \in {"done", "timeout"} =>
        LET retried == turn_trace.ended = "timeout" \/ turn_trace.buffer_blank
            canned == IF turn_trace.agent = "student"
                      THEN CannedStudent ELSE CannedCounsellor
        IN  /\ turn_trace.generation_mode = "stream" <=> ~retried
            /\ turn_trace.retry_calls = (IF retried THEN 1 ELSE 0)
            /\ (retried /\ ~turn_trace.retry_blank) =>
                   turn_trace.generation_mode = "structured_retry"
            /\ (retried /\ turn_trace.retry_blank) =>
                   /\ turn_trace.generation_mode = "fallback"
                   /\ turn_trace.content = canned

ContentPresent(h) == \A i \in 1..Len(h) : ~IsBlank(h[i].content)

\* C10: every turn appended to either transcript has content that is not
\* blank, whatever the streamed text, the speaker, the generation mode or
\* the pipeline mode.
ContentNeverBlank ==
    /\ ContentPresent(messages)
    /\ ContentPresent(history_for_reporting)

\* a streamed prospect turn from which nothing could be recovered, recorded
\* with the placeholder as its content
ContentNeverBlankWitness ==
    /\ Len(history_for_reporting) = 2
    /\ history_for_reporting[2].agent = "student"
    /\ history_for_reporting[2].generation_mode = "stream"
    /\ history_for_reporting[2].content = <<"...">>
    /\ messages[2].content = <<"...">>
(***************************************************************************)
(* C11: whatever the current psychological state and the update mapping,   *)
(* the merge yields resistance and trust as integers of 0..100: a number   *)
(* out of range is clamped to the nearest bound, a number in range is      *)
(* taken (its integer part), a value that is not a number leaves the       *)
(* current value; and the session's psychological state has both scores in *)
(* 0..100 in every reachable state.                                        *)
(***************************************************************************)
\* the value an update mapping proposes for a score: the key's, else the alias's
Proposed(updates, key, alias) == Get(updates, key, Get(updates, alias, Unparsable))

Clamped(new, old, proposed) ==
    /\ new \in 0..100
    /\ proposed.kind = "num" /\ Trunc10(proposed.tenths) > 100 => new = 100
    /\ proposed.kind = "num" /\ Trunc10(proposed.tenths) < 0 => new = 0
    /\ proposed.kind = "num" /\ Trunc10(proposed.tenths) \in 0..100
          => new = Trunc10(proposed.tenths)
    /\ proposed.kind # "num" => new = old

\* the prospect's turn that was last finished and announced
StudentTurnDone == turn_trace.agent = "student" /\ turn_trace.complete # NoMessage

MergeClamps ==
    /\ student_inner_state.skepticism_level \in 0..100
    /\ student_inner_state.trust_score \in 0..100
    /\ StudentTurnDone =>
          LET updates == turn_trace.fields.updated_stats
              old == turn_trace.inner_before
              new == turn_trace.complete.updated_stats
          IN  /\ Clamped(Trunc10(new["skepticism_level"].tenths), old.skepticism_level,
                         Proposed(updates, "skepticism_level", "resistance"))
              /\ Clamped(Trunc10(new["trust_score"].tenths), old.trust_score,
                         Proposed(updates, "trust_score", "trust"))
    /\ pc = "loop" /\ round > 1 /\ StudentTurnDone =>
          student_inner_state =
              [skepticism_level |-> Trunc10(turn_trace.complete.updated_stats["skepticism_level"].tenths),
               trust_score |-> Trunc10(turn_trace.complete.updated_stats["trust_score"].tenths)]

\* a delta of resistance 130 and trust -15 was merged: the state holds 100 and 0
MergeClampsWitness ==
    /\ pc = "loop" /\ round > 1 /\ StudentTurnDone
    /\ turn_trace.fields.updated_stats = JsonLoads(JsonClamp)
    /\ student_inner_state = [skepticism_level |-> 100, trust_score |-> 0]

(***************************************************************************)
(* C12: in every reachable state the counsellor's current offer lies       *)
(* between the floor and the target, and the prospect's current offer      *)
(* between the opening bid and the budget, whatever fee and persona the    *)
(* positions were derived from and whatever the turns said.                *)
(***************************************************************************)
Opening == DeriveFinancials(listed_fee, persona.willingness_to_invest_score).student_opening

PositionsInRange ==
    /\ counsellor_position.floor_offer <= counsellor_position.current_offer
    /\ counsellor_position.current_offer <= counsellor_position.target_offer
    /\ Opening <= student_position.current_offer
    /\ student_position.current_offer <= student_position.budget

\* a text named an amount outside the party's range
NamedOutOfRange(m) ==
    \E c \in ExtractAllOfferCandidates(m.content) :
        IF m.agent = "counsellor"
        THEN c < counsellor_position.floor_offer \/ c > counsellor_position.target_offer
        ELSE c < Opening \/ c > student_position.budget

\* both offers have moved, and both parties also named amounts out of range
PositionsInRangeWitness ==
    /\ counsellor_position.current_offer < counsellor_position.target_offer
    /\ student_position.current_offer > Opening
    /\ \E i \in 1..Len(messages) : messages[i].agent = "counsellor" /\ NamedOutOfRange(messages[i])
    /\ \E i \in 1..Len(messages) : messages[i].agent = "student" /\ NamedOutOfRange(messages[i])

(***************************************************************************)
(* C13: from one round to the next the counsellor's current offer never    *)
(* rises and the prospect's never falls; a counsellor who only re-quotes   *)
(* the prospect's current offer, and a prospect who only re-quotes the     *)
(* counsellor's current offer with a referencing phrase, leave their own   *)
(* offer where it was.                                                     *)
(***************************************************************************)
\* the round being closed: what the two parties said in it
RoundCounsellorText == messages[Len(messages)].content
RoundStudentText == student_msg.content

CounsellorCites ==
    /\ pc = "post_student"
    /\ CounsellorCandidates(RoundCounsellorText, counsellor_position.current_offer)
          = {student_position.current_offer}

StudentCites ==
    /\ pc = "post_student"
    /\ ExtractAllOfferCandidates(RoundStudentText) = {counsellor_position.current_offer}
    /\ \E i \in 1..Len(RoundStudentText) : RoundStudentText[i] \in ReferencePhrases

OffersMonotone ==
    [][/\ counsellor_position'.current_offer <= counsellor_position.current_offer
       /\ student_position'.current_offer >= student_position.current_offer
       /\ (CounsellorCites) => (counsellor_position'.current_offer
                                   = counsellor_position.current_offer)
       /\ (StudentCites) => (student_position'.current_offer
                                = student_position.current_offer)]_vars

\* after a concession of each side, a round of two citations: the counsellor
\* quotes the prospect's current offer, a number inside the counsellor's range
\* and below the counsellor's offer, and the prospect quotes the counsellor's
OffersMonotoneWitness ==
    /\ CounsellorCites /\ StudentCites
    /\ counsellor_position.floor_offer <= student_position.current_offer
    /\ student_position.current_offer < counsellor_position.current_offer
    /\ counsellor_position.current_offer <= student_position.budget
    /\ counsellor_position.current_offer < counsellor_position.target_offer

(***************************************************************************)
(* C14: a concession counter never decreases, grows by at most one in a    *)
(* round, and grows in a round exactly when that side's current offer      *)
(* strictly moved toward the other side in that round.                     *)
(***************************************************************************)
CountersFollowOffers ==
    [][/\ concession_count_counsellor' \in
             {concession_count_counsellor, concession_count_counsellor + 1}
       /\ concession_count_student' \in
             {concession_count_student, concession_count_student + 1}
       /\ (concession_count_counsellor' = concession_count_counsellor + 1)
             <=> (counsellor_position'.current_offer < counsellor_position.current_offer)
       /\ (concession_count_student' = concession_count_student + 1)
             <=> (student_position'.current_offer > student_position.current_offer)
       /\ (concession_count_counsellor' # concession_count_counsellor
           \/ concession_count_student' # concession_count_student)
             => (round' = round + 1)]_vars

\* two rounds were played, the counsellor conceded in both of them and the
\* prospect in one
CountersFollowOffersWitness ==
    /\ round = 3
    /\ concession_count_counsellor = 2
    /\ concession_count_student = 1

(***************************************************************************)
(* C15: the concession score is the integer part of                        *)
(* 100 x (target - offer) / max(1, target - floor), kept within 0..100:    *)
(* 0 while the counsellor stands at the target, 100 at the floor, and 25   *)
(* for an offer of 45000 with floor 30000 and target 50000.                *)
(***************************************************************************)
ScoreFormula ==
    LET target == counsellor_position.target_offer
        floor == counsellor_position.floor_offer
        offer == counsellor_position.current_offer
        margin == IF target - floor >= 1 THEN target - floor ELSE 1
    IN  /\ concession_score \in 0..100
        /\ concession_score * margin <= 100 * (target - offer)
        /\ concession_score < 100 => 100 * (target - offer) < (concession_score + 1) * margin
        /\ offer = target => concession_score = 0
        /\ offer = floor => concession_score = 100
        /\ ConcessionScore(50000, 30000, 45000) = 25

\* the counsellor has come down to the floor in two concessions
ScoreFormulaWitness ==
    /\ counsellor_position.current_offer = counsellor_position.floor_offer
    /\ concession_score = 100
    /\ concession_count_counsellor = 2

SameOffers ==
    /\ twin.on
    /\ twin.counsellor_offer = counsellor_position.current_offer
    /\ twin.student_offer = student_position.current_offer

Has(raw, tok) == \E i \in 1..Len(raw) : raw[i] = tok
Unclosed(raw, tag) == Has(raw, OpenTag(tag)) /\ ~Has(raw, CloseTag(tag))

\* everything after the first opening tag
AfterOpen(raw, tag) ==
    LET o == CHOOSE i \in 1..Len(raw) :
                 raw[i] = OpenTag(tag) /\ \A j \in 1..(i - 1) : raw[j] # OpenTag(tag)
    IN  Strip([i \in 1..(Len(raw) - o) |-> raw[o + i]])

\* the prospect's turn that was last finished, read from the stream
StreamedStudentTurn ==
    turn_trace.agent = "student" /\ turn_trace.generation_mode = "stream"

HasAny(raw, toks) == \E i \in 1..Len(raw) : raw[i] \in toks

\* the text from the first occurrence of the label to the next line that
\* starts with a recognized label
LabelValue(raw, label) ==
    LET m == CHOOSE i \in 1..Len(raw) :
                 raw[i] = label /\ \A j \in 1..(i - 1) : raw[j] # label
        E == {i \in (m + 1)..(Len(raw) - 1) :
                 raw[i] = "\n" /\ raw[i + 1] \in LabelPrefixes}
        last == IF E = {} THEN Len(raw)
                ELSE (CHOOSE i \in E : \A j \in E : i <= j) - 1
    IN  Strip([i \in 1..(last - m) |-> raw[m + i]])

FieldDefaults ==
    StreamedStudentTurn =>
       LET raw == turn_trace.raw
           f == turn_trace.fields
       IN  /\ f.confidence_score \in 0..100
           /\ ~HasAny(raw, {"<confidence>", "<confidence_score>", "CONFIDENCE_SCORE:"})
                 => f.confidence_score = 60
           /\ ~HasAny(raw, {"<emotional_state>", "<emotion>", "EMOTIONAL_STATE:"})
                 => f.emotional_state = <<"calm">>
           /\ ~HasAny(raw, {"<thought>", "INTERNAL_THOUGHT:"})
                 => f.internal_thought = <<>>
           /\ ~HasAny(raw, {"<stats>", "UPDATED_STATS:", "UPDATED_STATE:"})
                 => f.updated_stats = EmptyDict

LabelThoughtExact ==
    StreamedStudentTurn /\ Has(turn_trace.raw, "INTERNAL_THOUGHT:")
                        /\ ~Has(turn_trace.raw, "<thought>")
       => turn_trace.fields.internal_thought = LabelValue(turn_trace.raw, "INTERNAL_THOUGHT:")

LabelIntentExact ==
    StreamedStudentTurn /\ Has(turn_trace.raw, "STRATEGIC_INTENT:")
                        /\ ~Has(turn_trace.raw, "<intent>")
       => turn_trace.fields.intent = LabelValue(turn_trace.raw, "STRATEGIC_INTENT:")

LabelMessageExact ==
    StreamedStudentTurn /\ Has(turn_trace.raw, "MESSAGE:")
                        /\ ~Has(turn_trace.raw, "<message>")
                        /\ LabelValue(turn_trace.raw, "MESSAGE:") # <<>>
       => turn_trace.fields.message
             = Strip(CollapseBeforeNewline(LabelValue(turn_trace.raw, "MESSAGE:")))

LabelEmotionExact ==
    StreamedStudentTurn /\ Has(turn_trace.raw, "EMOTIONAL_STATE:")
                        /\ ~HasAny(turn_trace.raw, {"<emotional_state>", "<emotion>"})
       => turn_trace.fields.emotional_state = LabelValue(turn_trace.raw, "EMOTIONAL_STATE:")

FieldDefaultsAndLabels ==
    /\ FieldDefaults
    /\ LabelThoughtExact
    /\ LabelIntentExact
    /\ LabelMessageExact
    /\ LabelEmotionExact

(***************************************************************************)
(* C19: a state-delta block that is not a key/value object gives the empty *)
(* delta and no error, and merging that delta leaves the inner state as it *)
(* was.  When the block is delimited (closed by its tag, or one label line)*)
(* and lies outside every other field, the message, the emotion and the    *)
(* thought are those of the same text with a blank in the block's place.   *)
(***************************************************************************)
\* the block holds no text that json.loads turns into an object
CannotParse(block) ==
    /\ block # <<>>
    /\ LET B == {i \in 1..Len(block) : block[i] \in BraceTokens}
       IN  ~(\E i \in B : B = {i} /\ block[i] # JsonBad)

StatsInTags(raw) == ExtractTagBlock(raw, "stats") # <<>>
StatsLabel(raw) ==
    IF ExtractLabeledBlock(raw, "UPDATED_STATS:", StatsStopLabels) # <<>>
    THEN "UPDATED_STATS:" ELSE "UPDATED_STATE:"

\* where the block and its markers begin and end in the raw text
StatsFirst(raw) ==
    IF StatsInTags(raw) THEN FirstIndex(raw, {OpenTag("stats")}, 1)
    ELSE FirstIndex(raw, {StatsLabel(raw)}, 1)
StatsLast(raw) ==
    LET m == StatsFirst(raw)
        c == FirstIndex(raw, {CloseTag("stats")}, m + 1)
        stops == IF StatsLabel(raw) = "UPDATED_STATS:" THEN StatsStopLabels
                 ELSE StateStopLabels
        E == {i \in (m + 1)..(Len(raw) - 1) :
                 /\ raw[i] = "\n" /\ raw[i + 1] \in stops
                 /\ \E j \in (m + 1)..(i - 1) : raw[j] \notin WS}
    IN  IF StatsInTags(raw) THEN (IF c = 0 THEN Len(raw) ELSE c)
        ELSE IF E = {} THEN Len(raw)
        ELSE (CHOOSE i \in E : \A j \in E : i <= j) - 1

\* the raw text with a blank in the place of the block and its markers
WithoutStats(raw) ==
    SubSeq(raw, 1, StatsFirst(raw) - 1) \o <<" ">>
       \o SubSeq(raw, StatsLast(raw) + 1, Len(raw))

\* the block has its closing tag, or is one line that starts with its label,
\* and holds the tag or the label of no field
Delimited(raw) ==
    /\ IF StatsInTags(raw) THEN Has(raw, CloseTag("stats"))
       ELSE /\ StatsFirst(raw) = 1 \/ raw[StatsFirst(raw) - 1] = "\n"
            /\ ~Has(UpdatedStatsRaw(raw), "\n")
    /\ ~HasAny(UpdatedStatsRaw(raw), TagTokens \cup LabelPrefixes)

\* no other field is open where the block begins: every tag opened before
\* it is closed before it, and no thought or message label precedes it
OutsideFields(raw) ==
    LET m == StatsFirst(raw)
    IN  /\ \A j \in 1..(m - 1) : \A tag \in FieldTags \ {"stats"} :
              raw[j] = OpenTag(tag)
                 => \E c \in (j + 1)..(m - 1) : raw[c] \in BlockCloses(tag)
        /\ \A j \in 1..(m - 1) : raw[j] \notin {"INTERNAL_THOUGHT:", "MESSAGE:"}

BadStatsTurn == StreamedStudentTurn /\ CannotParse(UpdatedStatsRaw(turn_trace.raw))

SameOtherFields(raw, f) ==
    \E g \in {ExtractResponseFields(WithoutStats(raw))} :
       /\ f.message = g.message
       /\ f.emotional_state = g.emotional_state
       /\ f.internal_thought = g.internal_thought

BadStatsIsolated ==
    BadStatsTurn =>
       /\ turn_trace.fields.updated_stats = EmptyDict
       /\ MergeStudentInnerState(turn_trace.inner_before, turn_trace.fields.updated_stats)
             = turn_trace.inner_before
       /\ student_inner_state = turn_trace.inner_before
       /\ Delimited(turn_trace.raw) /\ OutsideFields(turn_trace.raw)
             => SameOtherFields(turn_trace.raw, turn_trace.fields)

\* the message that follows a label line that does not parse
BadStatsIsolatedWitness ==
    /\ BadStatsTurn
    /\ turn_trace.raw = <<"UPDATED_STATS:", "not-a-json", "\n", "MESSAGE:", "w", "\n">>
    /\ Delimited(turn_trace.raw) /\ OutsideFields(turn_trace.raw)
    /\ turn_trace.fields.message = <<"w">>
    /\ turn_trace.fields.updated_stats = EmptyDict
    /\ round > 1 /\ student_inner_state = turn_trace.inner_before

\* as stated: whatever the place of the block in the text
BadStatsAsIfAbsent ==
    BadStatsTurn =>
       /\ turn_trace.fields.updated_stats = EmptyDict
       /\ SameOtherFields(turn_trace.raw, turn_trace.fields)

(***************************************************************************)
(* C20: the message_complete payload of a prospect turn carries no private *)
(* thought, and neither does the copy of the turn kept in the messages the *)
(* client is shown.                                                        *)
(***************************************************************************)
CompletionStripsThought ==
    /\ turn_trace.agent = "student" /\ turn_trace.complete # NoMessage
          => turn_trace.complete.internal_thought = <<>>
    /\ \A i \in 1..Len(messages) : messages[i].internal_thought = <<>>

(***************************************************************************)
(* C21: when the producer of a turn's stream reports an upstream error     *)
(* while the client is connected, the session sends one error event and    *)
(* ends there: the round is not advanced and the judge is not called.      *)
(***************************************************************************)
UpstreamErrorOnce ==
    [][(pc = "stream" /\ pc' = "errored" /\ client = "open")
          => (/\ CountOf(sent', "error") = CountOf(sent, "error") + 1
              /\ round' = round
              /\ judge_calls' = 0
              /\ ~Has(sent', "analysis"))]_vars

(***************************************************************************)
(* C22: a configuration message with an invalid or expired token, or with  *)
(* an unknown session, is answered with one error event and nothing else:  *)
(* the persona is not regenerated, no turn is generated, the judge is not  *)
(* called, no round is run and no last run is stored.                      *)
(***************************************************************************)
Rejected == pc \in {"errored", "returned"} /\ ~Has(sent, "session_ready")

TurnErrorSent ==
    /\ turn_trace.ended = "error"
    /\ Len(sent) > 0 /\ sent[Len(sent)] = "error"

ErrorOnlyAfterFallback ==
    TurnErrorSent => turn_trace.retry_calls >= 1

(***************************************************************************)
(* C24: when the idle timeout fires on a stream that has already delivered *)
(* chunks, the turn is finalized from the structured retry alone: its raw  *)
(* text is the text built from the retry payload, its fields are those     *)
(* extracted from that text, nothing of the streamed buffer is in its      *)
(* content, and its generation mode is structured_retry.                   *)
(***************************************************************************)
TimeoutAfterChunks ==
    pc = "stream" /\ full_text # <<>> /\ full_text' = <<>> /\ turn_trace'.ended = "timeout"

TimeoutDiscardsBuffer ==
    [][(TimeoutAfterChunks) =>
          (/\ turn_trace'.generation_mode = "structured_retry"
           /\ turn_trace'.retry_calls = 1
           /\ \E payload \in RetryPayloads(RetryWords) :
                 /\ turn_trace'.raw = RetryFullText(agent, payload)
                 /\ turn_trace'.fields = ExtractResponseFields(RetryFullText(agent, payload))
                 /\ turn_trace'.content = RetryMessage(agent, payload)
           /\ \A i \in 1..Len(full_text) :
                 /\ ~Has(turn_trace'.raw, full_text[i])
                 /\ ~Has(turn_trace'.content, full_text[i])
                 /\ ~Has(turn_trace'.fields.internal_thought, full_text[i]))]_vars

\* the counsellor's stream delivered a chunk and timed out: the client was
\* sent that chunk, then the retry's text, and the turn says what the retry said
TimeoutDiscardsBufferWitness ==
    /\ turn_trace.ended = "timeout" /\ turn_trace.agent = "counsellor"
    /\ sent = <<"session_ready", "metrics_update", "stream_chunk", "stream_chunk",
                "intent_update", "message_complete">>
    /\ turn_trace.content = <<"Happy">>
    /\ turn_trace.generation_mode = "structured_retry"

(***************************************************************************)
(* C25: while a turn is streamed, each chunk event that carries text is    *)
(* appended to the buffer and sent to the client as one stream_chunk in    *)
(* the same step, and a chunk without text changes nothing; the buffer is  *)
(* the concatenation of the texts sent, in the order they were sent; when  *)
(* the stream ends with "done" and the buffer is not blank the extractor   *)
(* is given that concatenation; and message_complete is the last event of  *)
(* the turn, after which the turn sends no stream_chunk.                   *)
(***************************************************************************)
RECURSIVE Concat(_)
Concat(texts) == IF texts = <<>> THEN <<>> ELSE Head(texts) \o Concat(Tail(texts))

ChunkConsumed == pc = "stream" /\ chunk_count' = chunk_count + 1 /\ client = "open"
DoneConsumed ==
    /\ pc = "stream" /\ client = "open"
    /\ turn_trace'.ended = "done" /\ chunk_count' = 0
    /\ pc' # "stream" \/ agent' # agent

ChunksForwardedInOrder ==
    [][/\ (ChunkConsumed) =>
             (\/ full_text' = full_text /\ forwarded' = forwarded /\ sent' = sent
              \/ /\ Len(forwarded') = Len(forwarded) + 1
                 /\ SubSeq(forwarded', 1, Len(forwarded)) = forwarded
                 /\ forwarded'[Len(forwarded')] # <<>>
                 /\ full_text' = full_text \o forwarded'[Len(forwarded')]
                 /\ sent' = Append(sent, "stream_chunk"))
       /\ (pc' = "stream") =>
             (/\ Concat(forwarded') = full_text'
              /\ Len(sent') > Len(forwarded')
              /\ \A i \in 1..Len(forwarded') : sent'[Len(sent') - i + 1] = "stream_chunk"
              /\ sent'[Len(sent') - Len(forwarded')] # "stream_chunk")
       /\ (DoneConsumed) =>
             (/\ ~IsBlank(full_text) => /\ turn_trace'.raw = Concat(forwarded)
                                        /\ turn_trace'.generation_mode = "stream"
                                        /\ ~Has(SubSeq(sent', Len(sent) + 1, Len(sent')),
                                                "stream_chunk")
              /\ SubSeq(sent', 1, Len(sent)) = sent
              /\ sent'[Len(sent')] = "message_complete"
              /\ CountOf(SubSeq(sent', Len(sent) + 1, Len(sent')), "message_complete") = 1)
      ]_vars

\* a stream that delivered a chunk without text and a chunk of one blank:
\* the blank was sent on, the other was not
ChunksForwardedInOrderWitness ==
    /\ pc = "stream" /\ chunk_count = 2
    /\ forwarded = << <<" ">> >>
    /\ full_text = <<" ">>
    /\ sent[Len(sent)] = "stream_chunk"

(***************************************************************************)
(* C26: the two turns of a round run one after the other.  The handler     *)
(* consumes one stream at a time; the prospect's stream starts only when   *)
(* the counsellor's turn of the round is in the transcript; the positions, *)
(* the concession counters and score move only after the prospect's turn;  *)
(* and the round counter moves only by one, in the step that has appended  *)
(* both turns of the round, updated the metrics and sent state_update and  *)
(* metrics_update.                                                         *)
(***************************************************************************)
TurnsOfRound(h, r) == {i \in 1..Len(h) : h[i].round = r}
metricVars == <<concession_score, concession_count_counsellor, concession_count_student,
                counsellor_position, student_position>>

CounsellorRule(candidates, prev_offer, prev_student_offer, floor) ==
    LET valid == {c \in candidates : floor <= c /\ c <= prev_offer}
        others == valid \ {prev_student_offer}
    IN  IF valid = {} THEN prev_offer
        ELSE IF others # {} THEN SetMin(others)
        ELSE prev_student_offer

RoundClosed == pc = "post_student" /\ round' = round + 1

CounsellorOfferByRule ==
    [][(RoundClosed) =>
          (counsellor_position'.current_offer
              = CounsellorRule(CounsellorCandidates(RoundCounsellorText,
                                                    counsellor_position.current_offer),
                               counsellor_position.current_offer,
                               student_position.current_offer,
                               counsellor_position.floor_offer))]_vars

(***************************************************************************)
(* C28: after a round the prospect's offer is the greatest of the          *)
(* candidates of the prospect's text that lie between the current offer    *)
(* and the budget; it stays when that candidate is the counsellor's        *)
(* current offer and the text holds one of the four phrases "the price     *)
(* of", "listed price", "original price", "reduction of", and no other     *)
(* phrase holds it back; with no such candidate the offer stays.           *)
(***************************************************************************)
SpecPhrases == {"the price of", "listed price", "original price", "reduction of"}

StudentRule(candidates, text, prev_offer, prev_student_offer, budget) ==
    LET valid == {c \in candidates : prev_student_offer <= c /\ c <= budget}
    IN  IF valid = {} THEN prev_student_offer
        ELSE IF /\ SetMax(valid) = prev_offer
                /\ \E i \in 1..Len(text) : text[i] \in SpecPhrases
             THEN prev_student_offer
        ELSE SetMax(valid)

StudentOfferByRule ==
    [][(RoundClosed) =>
          (student_position'.current_offer
              = StudentRule(ExtractAllOfferCandidates(RoundStudentText),
                            RoundStudentText,
                            counsellor_position.current_offer,
                            student_position.current_offer,
                            student_position.budget))]_vars

(***************************************************************************)
(* C29: when a round's metrics are updated, the tone rises by 8 and the    *)
(* trust falls by 6 on a negative emotion tag of the prospect's turn, the  *)
(* tone falls by 4 and the trust rises by 5 on a positive tag, neither     *)
(* moves on another tag; each result is kept within 0..100, the move is    *)
(* made from the value the metric had before the round, and the trust is   *)
(* then three quarters of that result plus one quarter of the prospect's   *)
(* trust score.                                                            *)
(***************************************************************************)
Within100(x) == Max(0, Min(100, x))

MetricsInRange ==
    /\ tone_escalation \in 0..100
    /\ objection_intensity \in 0..100
    /\ trust_index \in 0..100
    /\ concession_score \in 0..100
    /\ close_probability \in 0..100

(***************************************************************************)
(* C31: the sentiment, the resistance, the trust and the unresolved        *)
(* concerns of the prospect change only by the merge of a prospect turn's  *)
(* state delta: every step leaves the four unchanged or leaves them as     *)
(* the merge of that delta gives them.                                     *)
(***************************************************************************)
innerVars == <<student_inner_state, sentiment, unresolved_concerns>>

MergedWith(updates) ==
    <<MergeStudentInnerState(student_inner_state, updates),
      MergeSentiment(sentiment, updates),
      MergeConcerns(unresolved_concerns, updates)>>

InnerStateOnlyMerged ==
    [][\/ innerVars' = innerVars
       \/ /\ pc = "post_student"
          /\ innerVars' \in {MergedWith(student_msg.updated_stats),
                             MergedWith(turn_trace.fields.updated_stats)}]_vars

(***************************************************************************)
(* C32: no prospect turn that was finalized, whatever its generation      *)
(* mode, has a content that is classified as role drift: the guard has     *)
(* rewritten it or replaced it by the role-safe question.                  *)
(***************************************************************************)
NoDriftFinalized ==
    /\ \A i \in 1..Len(messages) :
          messages[i].agent = "student" => ~LooksLikeStudentRoleDrift(messages[i].content)
    /\ \A i \in 1..Len(history_for_reporting) :
          history_for_reporting[i].agent = "student"
             => ~LooksLikeStudentRoleDrift(history_for_reporting[i].content)

(***************************************************************************)
(* C33: the state delta of a prospect turn is the first balanced {...}     *)
(* span of its block: when the block's first such span is a well-formed    *)
(* key/value object, the delta is that object, whatever braces or objects  *)
(* follow it in the block.                                                 *)
(***************************************************************************)
FirstObjectIsDelta ==
    StreamedStudentTurn =>
       LET block == UpdatedStatsRaw(turn_trace.raw)
           B == {i \in 1..Len(block) : block[i] \in BraceTokens}
       IN  B # {} /\ JsonLoads(block[SetMin(B)]) # EmptyDict
              => turn_trace.fields.updated_stats = JsonLoads(block[SetMin(B)])

(***************************************************************************)
(* C34: the handler does not return while a detached coaching task is      *)
(* still running, also when a client disconnect has ended the loop: the    *)
(* tasks in flight are awaited first, and none of them delivers a coaching *)
(* event to the closed channel.                                            *)
(***************************************************************************)
TasksAwaitedBeforeReturn ==
    /\ pc \in Ended => copilot_pending = 0
    /\ client # "open" => \A i \in 1..Len(sent) : sent[i] # "copilot_update"

(***************************************************************************)
(* C35: the coaching task is detached.  While a task of an earlier round   *)
(* is still running the loop can go on (the loop head and the rest of the  *)
(* round stay enabled), and the step that ends a task, with tips or with a *)
(* failure, changes neither the handler's position nor the round, the      *)
(* transcripts, the offers, the psychological state, the metrics or the    *)
(* deal status.                                                            *)
(***************************************************************************)
CoachingDetached ==
    /\ [](copilot_pending > 0 =>
             /\ (pc = "loop" => ENABLED LoopHead)
             /\ (pc = "post_student" => ENABLED PostStudent(SessionLevels)))
    /\ [][(copilot_pending' < copilot_pending) =>
              (UNCHANGED <<pc, configVars, loopVars, turnVars, judgeVars,
                           humanVars>>)]_vars

CoachingDetachedWitness ==
    /\ mode = "agent_powered_human_vs_ai"
    /\ round = 2
    /\ pc = "post_student"
    /\ copilot_pending = 1
    /\ copilot_sent = 0

(***************************************************************************)
(* C36: the public transcript and the full one stay aligned and are        *)
(* append-only.  They have the same length and, position by position, the  *)
(* same turn id, round, speaker and content; rounds ascend and within a    *)
(* round the counsellor's turn precedes the prospect's; a prospect turn of *)
(* the public transcript has an empty rationale and an empty state delta;  *)
(* a step either leaves both lists alone or appends one turn to each, the  *)
(* full list getting the prospect's turn as it was produced.               *)
(***************************************************************************)
PublicFields(msg) == <<msg.id, msg.round, msg.agent, msg.content>>

TranscriptsAligned ==
    /\ [](/\ Len(messages) = Len(history_for_reporting)
          /\ \A i \in 1..Len(messages) :
                /\ PublicFields(messages[i]) = PublicFields(history_for_reporting[i])
                /\ messages[i].agent = "student" =>
                      /\ messages[i].internal_thought = <<>>
                      /\ messages[i].updated_stats = EmptyDict
                /\ \A j \in 1..Len(messages) :
                      i < j => /\ messages[i].round <= messages[j].round
                               /\ messages[i].id # messages[j].id
                               /\ messages[i].round = messages[j].round =>
                                     /\ messages[i].agent = "counsellor"
                                     /\ messages[j].agent = "student")
    /\ [][\/ UNCHANGED <<messages, history_for_reporting>>
          \/ /\ Len(messages') = Len(messages) + 1
             /\ SubSeq(messages', 1, Len(messages)) = messages
             /\ Len(history_for_reporting') = Len(history_for_reporting) + 1
             /\ SubSeq(history_for_reporting', 1, Len(history_for_reporting))
                   = history_for_reporting
             /\ pc = "post_student" =>
                   history_for_reporting'[Len(history_for_reporting')] = student_msg]_vars

TranscriptsAlignedWitness ==
    /\ Len(messages) = 4
    /\ history_for_reporting[2].internal_thought # <<>>
    /\ history_for_reporting[2].updated_stats # EmptyDict
    /\ messages[2].content = history_for_reporting[2].content

(***************************************************************************)
(* C37: the hand-off queue has a capacity.  However slow the loop is, the  *)
(* worker is held back before it has queued a whole stream: the events put *)
(* and not yet taken are fewer than the MaxChunks chunks of the longest    *)
(* stream plus its closing event.                                          *)
(***************************************************************************)
QueueBounded == Len(stream_queue) <= MaxChunks

(***************************************************************************)
(* C38: merging twice is merging once.  When the prospect's turn is back   *)
(* in the loop, its stored state delta is the driver's merge of the        *)
(* session's state with the extracted delta; the loop's merge of the same  *)
(* session state with that stored delta gives the stored delta again, in   *)
(* all four fields.                                                        *)
(***************************************************************************)
MergeIdempotent ==
    pc = "post_student" =>
        MergedDict(MergeStudentInnerState(student_inner_state, student_msg.updated_stats),
                   MergeSentiment(sentiment, student_msg.updated_stats),
                   MergeConcerns(unresolved_concerns, student_msg.updated_stats))
            = student_msg.updated_stats

(***************************************************************************)
(* C39: the stored last-run record changes only in the step that sends the *)
(* verdict, and then it holds that verdict; a step that ends a run by a    *)
(* disconnect or an error leaves it as it was.  A run that connects with   *)
(* retry_mode takes its retry context from the record stored at that       *)
(* moment, and while a run is not in retry mode its retry context is empty *)
(* and its retry modifier is 0.                                            *)
(***************************************************************************)
RetryContextFromVerdict ==
    /\ [](~retry_mode => (previous_analysis = NoAnalysis /\ retry_modifier = 0))
    /\ [][/\ (last_analysis' # last_analysis) =>
                (/\ pc = "judge"
                 /\ sent' = sent \o JudgeEvents
                 /\ last_analysis' = analysis')
          /\ (pc' \in {"aborted", "errored"}) => (last_analysis' = last_analysis)
          /\ (pc \in Ended /\ pc' = "config" /\ retry_mode') =>
                (/\ previous_analysis' = last_analysis
                 /\ retry_modifier' = RetryModifier(last_analysis))]_vars

RetryContextFromVerdictWitness ==
    /\ retry_mode
    /\ previous_analysis # NoAnalysis
    /\ retry_modifier = 8
    /\ pc = "aborted"
    /\ judge_calls = 1
    /\ last_analysis = previous_analysis

(***************************************************************************)
(* C40: in the human-driven modes an inbound message that is not a         *)
(* human_input, or whose text is empty, is answered with one error or      *)
(* warning event and changes nothing else: the round, both transcripts,    *)
(* both offers, the psychological state, the metrics, the deal status and  *)
(* the counter of degraded turns stay as they were, and no turn, judge,    *)
(* persona or coaching call is made for it.  The log of sent events keeps  *)
(* the answers to the first MaxRejects rejections.                         *)
(***************************************************************************)
RejectChangesNothing ==
    [][(pc = "await_human" /\ pc' = "loop") =>
          (/\ inbound' \in {"not_human_input", "empty_text"}
           /\ UNCHANGED <<configVars, loopVars, turnVars, judgeVars, copilot_pending,
                          copilot_sent, client, detected, attempted_after_close>>
           /\ IF rejects < MaxRejects
              THEN sent' = Append(sent, IF inbound' = "not_human_input" THEN "error"
                                        ELSE "warning")
              ELSE sent' = sent)]_vars

RejectChangesNothingWitness ==
    /\ pc = "loop"
    /\ inbound = "empty_text"
    /\ round = 2
    /\ Len(messages) = 2
    /\ rejects = 1
    /\ sent[Len(sent)] = "warning"

====
